---- MODULE Spec2Model ----
(***************************************************************************)
(* ValutaTrade Hub: a model of the ledger (users, portfolios, wallets),    *)
(* the exchange-rate resolver with its file cache, and the rate refresh    *)
(* pipeline, translated from src/valutatrade_hub.                          *)
(*                                                                         *)
(* Numbers.  Balances and amounts are exact integers (units of currency).  *)
(* Rates are exact rationals [n, d]; a division by a zero rate is the      *)
(* ZeroDivisionError the interpreter raises.  Float rounding, NaN and      *)
(* infinities are outside the model.                                       *)
(*                                                                         *)
(* Exceptions.  Every operation returns a record whose field exc names     *)
(* the exception class that escapes it ("none" when it returns).           *)
(***************************************************************************)
EXTENDS Integers, Sequences, FiniteSets, TLC

VARIABLES
    users,         \* data/users.json: the list of user dicts
    portfolios,    \* data/portfolios.json: the list of portfolio dicts
    rates,         \* data/rates.json: the rate cache file
    history,       \* data/exchange_rates.json: the rate history file
    current_user,  \* usecases._current_user
    now,           \* the wall clock, in seconds
    last,          \* the last operation: its arguments and its outcome
    running,       \* main_cli: the while True loop has not been left
    procs          \* the processes that run a trade step by step: where
                   \* each one is and the Portfolio object it holds; in
                   \* the wallet specification, the Wallet objects in
                   \* memory: the _balance of each, by currency_code

vars == <<users, portfolios, rates, history, current_user, now, last, running, procs>>

---------------------------------------------------------------------------
(* Bounds of the model. *)

MaxUsers == 1
MaxBalance == 2
MaxTicks == 2
MaxHistory == 1
MaxAccounts == 2
MaxRecords == 2

(* One tick of the clock, in seconds: half the default TTL, so that an     *)
(* entry's age passes through values below, equal to and above the TTL.    *)
TickSeconds == 1800

---------------------------------------------------------------------------
(* Partial functions (Python dicts). *)

EmptyDict == [x \in {} |-> 0]

Put(f, k, v) == [x \in (DOMAIN f) \cup {k} |-> IF x = k THEN v ELSE f[x]]

(* An update that keeps the value already there: the first writer wins. *)
Update_keeping(f, g) ==
    [x \in (DOMAIN f) \cup (DOMAIN g) |-> IF x \in DOMAIN f THEN f[x] ELSE g[x]]

Update(f, g) == [x \in (DOMAIN f) \cup (DOMAIN g) |-> IF x \in DOMAIN g THEN g[x] ELSE f[x]]

---------------------------------------------------------------------------
(* Rationals, standing for the floats of the program. *)

RECURSIVE Gcd(_, _)
Gcd(a, b) == IF b = 0 THEN a ELSE Gcd(b, a % b)

Abs(x) == IF x < 0 THEN -x ELSE x

Sign(d) == IF d < 0 THEN -1 ELSE 1

Rat(n, d) == [n |-> (Sign(d) * n) \div Gcd(Abs(n), Abs(d)),
              d |-> (Sign(d) * d) \div Gcd(Abs(n), Abs(d))]

RatDiv(a, b) == Rat(a.n * b.d, a.d * b.n)

RatMul(a, b) == Rat(a.n * b.n, a.d * b.d)

RatOfInt(k) == [n |-> k, d |-> 1]

One == RatOfInt(1)

(* A value that may be None / a missing dict key. *)
Some(r) == [has |-> TRUE, n |-> r.n, d |-> r.d]

None == [has |-> FALSE, n |-> 0, d |-> 1]

ValueOf(o) == [n |-> o.n, d |-> o.d]

---------------------------------------------------------------------------
(* Timestamps, as the strings the program stores.                          *)
(*   naive    datetime.now().isoformat(): parsed by fromisoformat and      *)
(*            comparable with datetime.now()                               *)
(*   utcZ     datetime.utcnow().isoformat() + "Z": fromisoformat either    *)
(*            rejects the suffix (ValueError) or yields an aware datetime  *)
(*            whose subtraction from the naive now raises TypeError        *)
(*   garbage  a non-empty string that is no ISO date (ValueError)          *)
(*   absent   no updated_at key: dict.get returns None                     *)

NaiveTs(t) == [kind |-> "naive", t |-> t]

UtcZTs(t) == [kind |-> "utcZ", t |-> t]

GarbageTs == [kind |-> "garbage", t |-> 0]

NoTs == [kind |-> "absent", t |-> 0]

---------------------------------------------------------------------------
(* Strings.  str.strip().upper() on the strings the model uses: a code in  *)
(* lower case or padded with blanks is mapped to the registered spelling,  *)
(* every other string is already normalised.                               *)

StripUpper(s) ==
    CASE s = "usd" -> "USD"
      [] s = " eur " -> "EUR"
      [] s = "eth" -> "ETH"
      [] OTHER -> s

---------------------------------------------------------------------------
(* core/currencies.py: the currency registry. *)

CURRENCY_REGISTRY ==
    {"USD", "EUR", "GBP", "RUB", "JPY", "CNY", "CHF", "CAD", "AUD",
     "BTC", "ETH", "USDT", "BNB", "SOL", "ADA", "XRP", "DOGE"}

(* get_currency(code): the normalised code, or the exception raised. *)
get_currency(code) ==
    IF code = ""
    THEN [exc |-> "InvalidCurrencyCodeError", code |-> code]
    ELSE IF StripUpper(code) \notin CURRENCY_REGISTRY
         THEN [exc |-> "CurrencyNotFoundError", code |-> StripUpper(code)]
         ELSE [exc |-> "none", code |-> StripUpper(code)]

---------------------------------------------------------------------------
(* core/models.py: Portfolio.EXCHANGE_RATES, the fixed rates to USD. *)

EXCHANGE_RATES ==
    [c \in {"USD", "EUR", "BTC", "RUB", "GBP"} |->
        CASE c = "USD" -> Rat(1, 1)
          [] c = "EUR" -> Rat(11, 10)
          [] c = "BTC" -> Rat(45000, 1)
          [] c = "RUB" -> Rat(11, 1000)
          [] c = "GBP" -> Rat(127, 100)]

(* infra/settings.py: the default of rates_ttl_seconds. *)
rates_ttl_seconds == 3600

---------------------------------------------------------------------------
(* The rate cache file data/rates.json.                                    *)
(*   pairs         the dict under the key "pairs"                          *)
(*   top           the pair keys stored at the top level of the file       *)
(*   last_refresh  the value under "last_refresh"                          *)
(* A pair key "FROM_TO" is the tuple <<FROM, TO>>.  An entry is a dict     *)
(* with the optional keys rate, updated_at and source (source "" when the  *)
(* key is missing).                                                        *)

Entry(rate, ts, src) == [rate |-> rate, updated_at |-> ts, source |-> src]

EmptyEntry == Entry(None, NoTs, "")

EmptyRates == [pairs |-> EmptyDict, top |-> EmptyDict, last_refresh |-> NoTs]

(* An external source that is down: every request fails. *)
update_exchange_rate_from_api_down(from_currency, to_currency, rts, t) ==
    [exc |-> "ApiRequestError", rate |-> One, updated_at |-> NoTs, rates |-> rts]

(* usecases._update_exchange_rate_from_api: the stub of the external       *)
(* source.  It succeeds exactly when both codes are in EXCHANGE_RATES,     *)
(* and then stores the entry under the top-level key of the file.          *)
update_exchange_rate_from_api(from_currency, to_currency, rts, t) ==
    IF from_currency \in DOMAIN EXCHANGE_RATES /\ to_currency \in DOMAIN EXCHANGE_RATES
    THEN [exc |-> "none",
          rate |-> RatDiv(EXCHANGE_RATES[from_currency], EXCHANGE_RATES[to_currency]),
          updated_at |-> NaiveTs(t),
          rates |-> [rts EXCEPT !.top =
                        Put(@, <<from_currency, to_currency>>,
                            Entry(Some(RatDiv(EXCHANGE_RATES[from_currency],
                                              EXCHANGE_RATES[to_currency])),
                                  NaiveTs(t), ""))]]
    ELSE [exc |-> "ApiRequestError", rate |-> One, updated_at |-> NoTs, rates |-> rts]

(* The outcome of get_exchange_rate: the exception or the returned tuple   *)
(* (rate, ts), the file afterwards, and what the call did: reads of the    *)
(* cache file, calls of the external source, writes of the cache file,     *)
(* and via, the return statement taken: "identity", "fresh" (a cached     *)
(* entry within its TTL), "refresh" (a stale entry refreshed), "stale" (a  *)
(* stale entry whose refresh failed), "as_is" (a cached entry returned     *)
(* without a freshness check), "fetch", "fallback", or "raise".            *)
RateReturn(rate, ts, rts, api, writes, via) ==
    [exc |-> "none", names |-> <<>>, rate |-> Some(rate), ts |-> ts,
     rates |-> rts, reads |-> 1, api |-> api, writes |-> writes, via |-> via]

RateRaise(exc, names, rts, reads, api) ==
    [exc |-> exc, names |-> names, rate |-> None, ts |-> NoTs,
     rates |-> rts, reads |-> reads, api |-> api, writes |-> 0, via |-> "raise"]

(* A return of the stored rate that does not invert an inverse entry. *)
ReturnStored_direct(e, inverse, names, rts, api, via) ==
    IF ~e.rate.has
    THEN RateRaise("KeyError", <<"rate">>, rts, 1, api)
    ELSE RateReturn(ValueOf(e.rate), e.updated_at, rts, api, 0, via)

(* return rate_data["rate"], updated_at  (inverse: 1.0 / rate_data["rate"]) *)
ReturnStored(e, inverse, names, rts, api, via) ==
    IF ~e.rate.has
    THEN RateRaise("KeyError", <<"rate">>, rts, 1, api)
    ELSE IF ~inverse
         THEN RateReturn(ValueOf(e.rate), e.updated_at, rts, api, 0, via)
         ELSE IF e.rate.n = 0
              THEN RateRaise("ZeroDivisionError", names, rts, 1, api)
              ELSE RateReturn(RatDiv(One, ValueOf(e.rate)), e.updated_at, rts, api, 0,
                              via)

(* A freshness test that still counts an entry of age exactly TTL as fresh. *)
IsFresh_inclusive(ts, t) == t - ts.t <= rates_ttl_seconds

(* datetime.now() - updated_time < ttl *)
IsFresh(ts, t) == t - ts.t < rates_ttl_seconds

(* A refresh whose failure is not absorbed: the ApiRequestError escapes. *)
Refreshed_failing(e, key, inverse, rts, u) ==
    IF u.exc = "none"
    THEN RateReturn(IF inverse THEN RatDiv(One, u.rate) ELSE u.rate,
                    u.updated_at, u.rates, 1, 1, "refresh")
    ELSE RateRaise(u.exc, key, rts, 1, 1)

(* A stale entry after the refresh attempt u: the refreshed rate, or the    *)
(* stored one when the attempt failed.                                     *)
Refreshed(e, key, inverse, rts, u) ==
    IF u.exc = "none"
    THEN RateReturn(IF inverse THEN RatDiv(One, u.rate) ELSE u.rate,
                    u.updated_at, u.rates, 1, 1, "refresh")
    ELSE ReturnStored(e, inverse, key, rts, 1, "stale")

(* A block that tests the freshness of the entry whatever use_cache is. *)
CachedEntry_checking(e, key, inverse, use_cache, rts, t) ==
    IF e.updated_at.kind = "naive"
    THEN IF IsFresh(e.updated_at, t)
         THEN ReturnStored(e, inverse, key, rts, 0, "fresh")
         ELSE Refreshed(e, key, inverse, rts,
                        update_exchange_rate_from_api(key[1], key[2], rts, t))
    ELSE IF ~inverse /\ e = EmptyEntry
         THEN RateRaise("fallthrough", <<>>, rts, 1, 0)
         ELSE ReturnStored(e, inverse, key, rts, 0, "as_is")

(* A block without the except clause: the ValueError of a timestamp that   *)
(* is no ISO date leaves the function.                                     *)
CachedEntry_strict(e, key, inverse, use_cache, rts, t) ==
    IF use_cache /\ e.updated_at.kind = "naive"
    THEN IF IsFresh(e.updated_at, t)
         THEN ReturnStored(e, inverse, key, rts, 0, "fresh")
         ELSE Refreshed(e, key, inverse, rts,
                        update_exchange_rate_from_api(key[1], key[2], rts, t))
    ELSE IF use_cache /\ e.updated_at.kind = "garbage"
         THEN RateRaise("ValueError", key, rts, 1, 0)
    ELSE IF ~inverse /\ e = EmptyEntry
         THEN RateRaise("fallthrough", <<>>, rts, 1, 0)
         ELSE ReturnStored(e, inverse, key, rts, 0, "as_is")

(* The block of get_exchange_rate run on a cached entry e: key is the      *)
(* cached pair (the requested pair, or its reverse when inverse).  The     *)
(* outcome "fallthrough" leaves the block without returning.               *)
CachedEntry(e, key, inverse, use_cache, rts, t) ==
    IF use_cache /\ e.updated_at.kind = "naive"
    THEN IF IsFresh(e.updated_at, t)
         THEN ReturnStored(e, inverse, key, rts, 0, "fresh")
         ELSE Refreshed(e, key, inverse, rts,
                        update_exchange_rate_from_api(key[1], key[2], rts, t))
    ELSE IF ~inverse /\ e = EmptyEntry
         THEN RateRaise("fallthrough", <<>>, rts, 1, 0)
         ELSE ReturnStored(e, inverse, key, rts, 0, "as_is")

(* An end of get_exchange_rate that lets the failure of the fetch escape. *)
Fetched_escaping(from_currency, to_currency, rts, u) ==
    IF u.exc = "none"
    THEN RateReturn(u.rate, u.updated_at, u.rates, 1, 1, "fetch")
    ELSE RateRaise(u.exc, <<from_currency, to_currency>>, rts, 1, 1)

(* The end of get_exchange_rate, after the fetch attempt u: the pair is    *)
(* cached in neither direction.                                            *)
Fetched(from_currency, to_currency, rts, u) ==
    IF u.exc = "none"
    THEN RateReturn(u.rate, u.updated_at, u.rates, 1, 1, "fetch")
    ELSE IF from_currency \in DOMAIN EXCHANGE_RATES
            /\ to_currency \in DOMAIN EXCHANGE_RATES
         THEN RateReturn(RatDiv(EXCHANGE_RATES[from_currency],
                                EXCHANGE_RATES[to_currency]), NoTs, rts, 1, 0,
                         "fallback")
         ELSE RateRaise("ExchangeRateNotFoundError",
                        <<from_currency, to_currency>>, rts, 1, 1)

FetchOrFallback(from_currency, to_currency, rts, t) ==
    Fetched(from_currency, to_currency, rts,
            update_exchange_rate_from_api(from_currency, to_currency, rts, t))

InverseOrFetch(from_currency, to_currency, use_cache, rts, t) ==
    IF <<to_currency, from_currency>> \in DOMAIN rts.pairs
    THEN CachedEntry(rts.pairs[<<to_currency, from_currency>>],
                     <<to_currency, from_currency>>, TRUE, use_cache, rts, t)
    ELSE FetchOrFallback(from_currency, to_currency, rts, t)

(* The direct entry's outcome r, or the rest of the function when the      *)
(* direct block was left without returning.                                *)
DirectOrRest(r, from_currency, to_currency, use_cache, rts, t) ==
    IF r.exc = "fallthrough"
    THEN InverseOrFetch(from_currency, to_currency, use_cache, rts, t)
    ELSE r

(* A resolver without the identity shortcut: equal codes go through the    *)
(* cache and the external source like any pair.                            *)
get_exchange_rate_no_identity(from_currency, to_currency, use_cache, rts, t) ==
    IF get_currency(from_currency).exc # "none"
    THEN RateRaise(get_currency(from_currency).exc, <<from_currency>>, rts, 0, 0)
    ELSE IF get_currency(to_currency).exc # "none"
    THEN RateRaise(get_currency(to_currency).exc, <<to_currency>>, rts, 0, 0)
    ELSE IF <<from_currency, to_currency>> \in DOMAIN rts.pairs
    THEN DirectOrRest(CachedEntry(rts.pairs[<<from_currency, to_currency>>],
                                  <<from_currency, to_currency>>, FALSE, use_cache,
                                  rts, t),
                      from_currency, to_currency, use_cache, rts, t)
    ELSE InverseOrFetch(from_currency, to_currency, use_cache, rts, t)

(* usecases.get_exchange_rate *)
get_exchange_rate(from_currency, to_currency, use_cache, rts, t) ==
    IF get_currency(from_currency).exc = "CurrencyNotFoundError"
    THEN RateRaise("CurrencyNotFoundError", <<from_currency>>, rts, 0, 0)
    ELSE IF get_currency(from_currency).exc # "none"
    THEN RateRaise(get_currency(from_currency).exc, <<from_currency>>, rts, 0, 0)
    ELSE IF get_currency(to_currency).exc = "CurrencyNotFoundError"
    THEN RateRaise("CurrencyNotFoundError", <<to_currency>>, rts, 0, 0)
    ELSE IF get_currency(to_currency).exc # "none"
    THEN RateRaise(get_currency(to_currency).exc, <<to_currency>>, rts, 0, 0)
    ELSE IF from_currency = to_currency
    THEN [RateReturn(One, NoTs, rts, 0, 0, "identity") EXCEPT !.reads = 0]
    ELSE IF <<from_currency, to_currency>> \in DOMAIN rts.pairs
    THEN DirectOrRest(CachedEntry(rts.pairs[<<from_currency, to_currency>>],
                                  <<from_currency, to_currency>>, FALSE, use_cache,
                                  rts, t),
                      from_currency, to_currency, use_cache, rts, t)
    ELSE InverseOrFetch(from_currency, to_currency, use_cache, rts, t)

---------------------------------------------------------------------------
(* core/models.py: Wallet.  A balance is a number; the outcome of a        *)
(* mutation is the exception raised or the new balance.                    *)

(* A deposit that sets the balance to the amount instead of adding it. *)
deposit_overwriting(balance, amount) ==
    IF amount <= 0
    THEN [exc |-> "ValueError", balance |-> balance]
    ELSE [exc |-> "none", balance |-> amount]

(* Wallet.deposit *)
deposit(balance, amount) ==
    IF amount <= 0
    THEN [exc |-> "ValueError", balance |-> balance]
    ELSE [exc |-> "none", balance |-> balance + amount]

(* A withdraw that does not compare the amount with the balance. *)
withdraw_unchecked(balance, amount) ==
    IF amount <= 0
    THEN [exc |-> "ValueError", balance |-> balance]
    ELSE [exc |-> "none", balance |-> balance - amount]

(* Wallet.withdraw *)
withdraw(balance, amount) ==
    IF amount <= 0
    THEN [exc |-> "ValueError", balance |-> balance]
    ELSE IF amount > balance
         THEN [exc |-> "ValueError", balance |-> balance]
         ELSE [exc |-> "none", balance |-> balance - amount]

---------------------------------------------------------------------------
(* core/models.py: Portfolio.  A portfolio (object or stored dict) is      *)
(* [user_id, wallets], wallets a dict from currency code to balance.       *)

Portfolio(user_id, wallets) == [user_id |-> user_id, wallets |-> wallets]

(* A serialisation that leaves out the wallets whose balance is 0. *)
to_dict_nonzero(p) ==
    [user_id |-> p.user_id,
     wallets |-> [c \in {x \in DOMAIN p.wallets : p.wallets[x] # 0} |->
                     [balance |-> p.wallets[c]]]]

(* Portfolio.to_dict: {"user_id", "wallets": {code: {"balance": b}}} *)
to_dict(p) == [user_id |-> p.user_id,
               wallets |-> [c \in DOMAIN p.wallets |-> [balance |-> p.wallets[c]]]]

(* Portfolio.from_dict *)
from_dict(data) == Portfolio(data.user_id,
                             [c \in DOMAIN data.wallets |-> data.wallets[c].balance])

(* The index of the first stored portfolio of user_id, 0 when there is none. *)
(* A lookup that takes the first record of the file, whoever owns it. *)
IndexOf_first(pfs, user_id) == IF pfs = <<>> THEN 0 ELSE 1

IndexOf(pfs, user_id) ==
    IF \E i \in DOMAIN pfs : pfs[i].user_id = user_id
    THEN CHOOSE i \in DOMAIN pfs :
            /\ pfs[i].user_id = user_id
            /\ \A j \in DOMAIN pfs : pfs[j].user_id = user_id => i <= j
    ELSE 0

(* A load that appends an empty record on every access, also when the     *)
(* user has one.                                                           *)
get_user_portfolio_appending(user_id, pfs) ==
    [portfolio |-> IF IndexOf(pfs, user_id) = 0 THEN Portfolio(user_id, EmptyDict)
                   ELSE from_dict(pfs[IndexOf(pfs, user_id)]),
     portfolios |-> Append(pfs, to_dict(Portfolio(user_id, EmptyDict)))]

(* usecases.get_user_portfolio: the portfolio, and the file afterwards     *)
(* (an empty portfolio is appended and saved when the user has none).      *)
get_user_portfolio(user_id, pfs) ==
    IF IndexOf(pfs, user_id) = 0
    THEN [portfolio |-> Portfolio(user_id, EmptyDict),
          portfolios |-> Append(pfs, to_dict(Portfolio(user_id, EmptyDict)))]
    ELSE [portfolio |-> from_dict(pfs[IndexOf(pfs, user_id)]), portfolios |-> pfs]

(* A save that appends the record without looking for the user's own. *)
save_portfolio_appending(portfolio, pfs) == Append(pfs, to_dict(portfolio))

(* usecases.save_portfolio: replace the first record of the user, or append. *)
save_portfolio(portfolio, pfs) ==
    IF IndexOf(pfs, portfolio.user_id) = 0
    THEN Append(pfs, to_dict(portfolio))
    ELSE [pfs EXCEPT ![IndexOf(pfs, portfolio.user_id)] = to_dict(portfolio)]

(* The stored balance of a wallet, -1 when the wallet or the portfolio is  *)
(* not in the file.                                                        *)
StoredBalance(pfs, user_id, code) ==
    IF IndexOf(pfs, user_id) = 0 THEN -1
    ELSE IF code \notin DOMAIN pfs[IndexOf(pfs, user_id)].wallets THEN -1
    ELSE pfs[IndexOf(pfs, user_id)].wallets[code].balance

---------------------------------------------------------------------------
(* core/utils.py: convert_currency_amount, on validated codes. *)
convert_currency_amount(amount, from_currency, to_currency, exchange_rate) ==
    IF amount < 0
    THEN [exc |-> "ValidationError", value |-> None]
    ELSE IF exchange_rate.n <= 0
    THEN [exc |-> "ValidationError", value |-> None]
    ELSE IF from_currency = to_currency
    THEN [exc |-> "none", value |-> Some(RatOfInt(amount))]
    ELSE [exc |-> "none", value |-> Some(RatMul(RatOfInt(amount), exchange_rate))]

---------------------------------------------------------------------------
(* usecases.buy_currency / sell_currency.  The outcome:                    *)
(*   exc         the exception that escapes, "none" when a dict is returned *)
(*   portfolios  data/portfolios.json afterwards                           *)
(*   rates       data/rates.json afterwards                                *)
(*   mutated     the wallet mutation succeeded in memory                   *)
(*   saved       save_portfolio ran                                        *)
(*   balance     the balance of the wallet object when the call ends, -1   *)
(*               when the call ends before it has a wallet                 *)
(*   currency, amount, old_balance, new_balance, rate, value: the result   *)
(*   dict (value is cost_usd or revenue_usd)                               *)

TradeRaise(exc, names, pfs, rts, mutated, balance) ==
    [exc |-> exc, names |-> names, portfolios |-> pfs, rates |-> rts,
     mutated |-> mutated, saved |-> FALSE, balance |-> balance,
     currency |-> "", amount |-> 0, old_balance |-> 0, new_balance |-> 0,
     rate |-> None, value |-> None]

(* A trade in which a missing rate is not absorbed: every exception of the *)
(* valuation escapes before save_portfolio.                                *)
Valued_unabsorbed(portfolio, code, amount, old_balance, new_balance, pfs, r, c) ==
    IF r.exc # "none"
    THEN TradeRaise(r.exc, r.names, pfs, r.rates, TRUE, new_balance)
    ELSE IF c.exc # "none"
    THEN TradeRaise(c.exc, <<>>, pfs, r.rates, TRUE, new_balance)
    ELSE [exc |-> "none", names |-> <<>>,
          portfolios |-> save_portfolio(portfolio, pfs), rates |-> r.rates,
          mutated |-> TRUE, saved |-> TRUE, balance |-> new_balance,
          currency |-> code, amount |-> amount,
          old_balance |-> old_balance, new_balance |-> new_balance,
          rate |-> r.rate, value |-> c.value]

(* A trade that saves the portfolio and then lets the missing rate out:    *)
(* ExchangeRateNotFoundError reaches the caller after the balance moved.   *)
Valued_reraising(portfolio, code, amount, old_balance, new_balance, pfs, r, c) ==
    IF r.exc = "none" /\ c.exc # "none"
    THEN TradeRaise(c.exc, <<>>, pfs, r.rates, TRUE, new_balance)
    ELSE IF r.exc = "ExchangeRateNotFoundError"
    THEN TradeRaise(r.exc, r.names, save_portfolio(portfolio, pfs), r.rates, TRUE,
                    new_balance)
    ELSE IF r.exc # "none"
    THEN TradeRaise(r.exc, r.names, pfs, r.rates, TRUE, new_balance)
    ELSE [exc |-> "none", names |-> <<>>,
          portfolios |-> save_portfolio(portfolio, pfs), rates |-> r.rates,
          mutated |-> TRUE, saved |-> TRUE, balance |-> new_balance,
          currency |-> code, amount |-> amount,
          old_balance |-> old_balance, new_balance |-> new_balance,
          rate |-> r.rate, value |-> c.value]

(* The end of buy_currency and sell_currency after the rate lookup r and   *)
(* the conversion c: an exception other than ExchangeRateNotFoundError     *)
(* escapes; otherwise save_portfolio runs and the result dict is returned. *)
Valued(portfolio, code, amount, old_balance, new_balance, pfs, r, c) ==
    IF r.exc = "none" /\ c.exc # "none"
    THEN TradeRaise(c.exc, <<>>, pfs, r.rates, TRUE, new_balance)
    ELSE IF r.exc \notin {"none", "ExchangeRateNotFoundError"}
    THEN TradeRaise(r.exc, r.names, pfs, r.rates, TRUE, new_balance)
    ELSE [exc |-> "none", names |-> <<>>,
          portfolios |-> save_portfolio(portfolio, pfs), rates |-> r.rates,
          mutated |-> TRUE, saved |-> TRUE, balance |-> new_balance,
          currency |-> code, amount |-> amount,
          old_balance |-> old_balance, new_balance |-> new_balance,
          rate |-> IF r.exc = "none" THEN r.rate ELSE None,
          value |-> IF r.exc = "none" THEN c.value ELSE None]

Converted(portfolio, code, amount, old_balance, new_balance, pfs, r) ==
    Valued(portfolio, code, amount, old_balance, new_balance, pfs, r,
           convert_currency_amount(amount, code, "USD", ValueOf(r.rate)))

(* The common tail of buy_currency and sell_currency: the valuation of the *)
(* amount in USD, then save_portfolio and the result dict.                 *)
ValueAndSave(portfolio, code, amount, old_balance, new_balance, pfs, rts, t) ==
    Converted(portfolio, code, amount, old_balance, new_balance, pfs,
              get_exchange_rate(code, "USD", TRUE, rts, t))

(* After the wallet mutation m (the outcome of deposit or withdraw) on the *)
(* portfolio loaded as g.                                                  *)
Mutated(user_id, code, amount, old_balance, m, g, rts, t) ==
    IF m.exc # "none"
    THEN TradeRaise(m.exc, <<>>, g.portfolios, rts, FALSE, m.balance)
    ELSE ValueAndSave(Portfolio(user_id, Put(g.portfolio.wallets, code, m.balance)),
                      code, amount, old_balance, m.balance, g.portfolios, rts, t)

(* buy_currency on the loaded portfolio g: the wallet is created with      *)
(* balance 0 when missing, then deposit.                                   *)
BuyWallet(user_id, code, amount, old_balance, g, rts, t) ==
    Mutated(user_id, code, amount, old_balance, deposit(old_balance, amount), g, rts, t)

BuyLoaded(user_id, code, amount, g, rts, t) ==
    BuyWallet(user_id, code, amount,
              IF code \in DOMAIN g.portfolio.wallets THEN g.portfolio.wallets[code] ELSE 0,
              g, rts, t)

(* A buy that loads the portfolio before it validates its arguments. *)
buy_currency_loading(user_id, currency_code, amount, pfs, rts, t) ==
    IF amount <= 0
    THEN TradeRaise("ValidationError", <<>>, get_user_portfolio(user_id, pfs).portfolios,
                    rts, FALSE, -1)
    ELSE IF get_currency(currency_code).exc # "none"
    THEN TradeRaise(get_currency(currency_code).exc, <<currency_code>>,
                    get_user_portfolio(user_id, pfs).portfolios, rts, FALSE, -1)
    ELSE BuyLoaded(user_id, get_currency(currency_code).code, amount,
                   get_user_portfolio(user_id, pfs), rts, t)

(* usecases.buy_currency *)
buy_currency(user_id, currency_code, amount, pfs, rts, t) ==
    IF amount <= 0
    THEN TradeRaise("ValidationError", <<>>, pfs, rts, FALSE, -1)
    ELSE IF get_currency(currency_code).exc # "none"
    THEN TradeRaise(get_currency(currency_code).exc, <<currency_code>>, pfs, rts, FALSE,
                    -1)
    ELSE BuyLoaded(user_id, get_currency(currency_code).code, amount,
                   get_user_portfolio(user_id, pfs), rts, t)

(* A sell that, like buy, creates the missing wallet with balance 0. *)
SellLoaded_creating(user_id, code, amount, g, rts, t) ==
    IF code \notin DOMAIN g.portfolio.wallets
    THEN Mutated(user_id, code, amount, 0, withdraw(0, amount), g, rts, t)
    ELSE Mutated(user_id, code, amount, g.portfolio.wallets[code],
                 withdraw(g.portfolio.wallets[code], amount), g, rts, t)

(* sell_currency on the loaded portfolio g: the wallet must exist, then    *)
(* withdraw.                                                               *)
SellLoaded(user_id, code, amount, g, rts, t) ==
    IF code \notin DOMAIN g.portfolio.wallets
    THEN TradeRaise("WalletNotFoundError", <<code>>, g.portfolios, rts, FALSE, -1)
    ELSE Mutated(user_id, code, amount, g.portfolio.wallets[code],
                 withdraw(g.portfolio.wallets[code], amount), g, rts, t)

(* usecases.sell_currency *)
sell_currency(user_id, currency_code, amount, pfs, rts, t) ==
    IF amount <= 0
    THEN TradeRaise("ValidationError", <<>>, pfs, rts, FALSE, -1)
    ELSE IF get_currency(currency_code).exc # "none"
    THEN TradeRaise(get_currency(currency_code).exc, <<currency_code>>, pfs, rts, FALSE,
                    -1)
    ELSE SellLoaded(user_id, get_currency(currency_code).code, amount,
                    get_user_portfolio(user_id, pfs), rts, t)

---------------------------------------------------------------------------
(* Accounts.  A stored user is [user_id, username, password]: the pair     *)
(* (hashed_password, salt) is stood for by the password it verifies.       *)

(* str.strip() on the usernames the model uses. *)
Strip(s) ==
    CASE s = " alice" -> "alice"
      [] s = " " -> ""
      [] OTHER -> s

NoUser == [user_id |-> 0, username |-> ""]

RECURSIVE MaxId(_)
MaxId(us) ==
    IF us = <<>> THEN 0
    ELSE IF Head(us).user_id > MaxId(Tail(us)) THEN Head(us).user_id ELSE MaxId(Tail(us))

(* An allocator that hands out the same id every time. *)
get_next_user_id_constant(us) == 1

(* utils.get_next_user_id *)
get_next_user_id(us) == IF us = <<>> THEN 1 ELSE MaxId(us) + 1

(* The least length of a password (usecases.register_user). *)
MinPasswordLen == 4

(* A registration that does not look for the username among the stored    *)
(* users.                                                                  *)
register_user_unchecked(username, password, us, pfs) ==
    IF Len(password) < MinPasswordLen
    THEN [exc |-> "ValidationError", users |-> us, portfolios |-> pfs, user |-> NoUser]
    ELSE IF Strip(username) = ""
    THEN [exc |-> "ValueError", users |-> us, portfolios |-> pfs, user |-> NoUser]
    ELSE [exc |-> "none",
          users |-> Append(us, [user_id |-> get_next_user_id(us),
                                username |-> Strip(username),
                                password |-> password]),
          portfolios |-> Append(pfs, to_dict(Portfolio(get_next_user_id(us),
                                                       EmptyDict))),
          user |-> [user_id |-> get_next_user_id(us), username |-> Strip(username)]]

(* usecases.register_user *)
register_user(username, password, us, pfs) ==
    IF Len(password) < MinPasswordLen
    THEN [exc |-> "ValidationError", users |-> us, portfolios |-> pfs, user |-> NoUser]
    ELSE IF \E i \in DOMAIN us : us[i].username = username
    THEN [exc |-> "ValidationError", users |-> us, portfolios |-> pfs, user |-> NoUser]
    ELSE IF Strip(username) = ""
    THEN [exc |-> "ValueError", users |-> us, portfolios |-> pfs, user |-> NoUser]
    ELSE LET user_id == get_next_user_id(us)
             user == [user_id |-> user_id, username |-> Strip(username),
                      password |-> password]
         IN  [exc |-> "none",
              users |-> Append(us, user),
              portfolios |-> Append(pfs, to_dict(Portfolio(user_id, EmptyDict))),
              user |-> [user_id |-> user_id, username |-> Strip(username)]]

(* A password check that accepts every password. *)
verify_password_any(user_data, password) == TRUE

(* User.verify_password *)
verify_password(user_data, password) == user_data.password = password

(* A login that keeps the user already logged in. *)
login_user_sticky(username, password, us, cur) ==
    IF ~\E i \in DOMAIN us : us[i].username = username
    THEN [exc |-> "UserNotFoundError", current_user |-> cur]
    ELSE IF ~\E i \in DOMAIN us : us[i].username = username /\ us[i].password = password
    THEN [exc |-> "AuthenticationError", current_user |-> cur]
    ELSE [exc |-> "none",
          current_user |->
              IF cur # NoUser THEN cur
              ELSE LET i == CHOOSE k \in DOMAIN us : us[k].username = username
                   IN  [user_id |-> us[i].user_id, username |-> us[i].username]]

(* A login that logs the current user out when it fails. *)
login_user_clearing(username, password, us, cur) ==
    IF ~\E i \in DOMAIN us : us[i].username = username
    THEN [exc |-> "UserNotFoundError", current_user |-> NoUser]
    ELSE LET i == CHOOSE k \in DOMAIN us :
                    /\ us[k].username = username
                    /\ \A j \in DOMAIN us : us[j].username = username => k <= j
         IN  IF us[i].password # password
             THEN [exc |-> "AuthenticationError", current_user |-> NoUser]
             ELSE [exc |-> "none",
                   current_user |-> [user_id |-> us[i].user_id,
                                     username |-> Strip(us[i].username)]]

(* usecases.login_user: the exception, or the user that becomes current. *)
login_user(username, password, us, cur) ==
    IF ~\E i \in DOMAIN us : us[i].username = username
    THEN [exc |-> "UserNotFoundError", current_user |-> cur]
    ELSE LET i == CHOOSE k \in DOMAIN us :
                    /\ us[k].username = username
                    /\ \A j \in DOMAIN us : us[j].username = username => k <= j
         IN  IF ~verify_password(us[i], password)
             THEN [exc |-> "AuthenticationError", current_user |-> cur]
             ELSE [exc |-> "none",
                   current_user |-> [user_id |-> us[i].user_id,
                                     username |-> Strip(us[i].username)]]

---------------------------------------------------------------------------
(* The valuation of a portfolio: cli/interface.py cmd_show_portfolio and   *)
(* core/utils.py reduce_portfolio_value.                                   *)

RatAdd(a, b) == Rat(a.n * b.d + b.n * a.d, a.d * b.d)

(* The registered codes in sorted order.  Wallets are kept as an unordered  *)
(* dict: both valuations walk them in this order (reduce_portfolio_value   *)
(* walks the dict's own order, which only decides which of several         *)
(* escaping exceptions is met first).                                      *)
CodeOrder ==
    <<"ADA", "AUD", "BNB", "BTC", "CAD", "CHF", "CNY", "DOGE", "ETH", "EUR",
      "GBP", "JPY", "RUB", "SOL", "USD", "USDT", "XRP">>

(* sorted(portfolio.wallets.items()) *)
SortedCodes(wallets) == SelectSeq(CodeOrder, LAMBDA c : c \in DOMAIN wallets)

(* except ValueError: the exception classes the handlers' except clause    *)
(* catches.  No exception of the domain hierarchy derives from ValueError. *)
IsValueError(exc) == exc = "ValueError"

(* One turn of the loop over the wallets, r the rate lookup of the wallet's *)
(* currency.  acc is [exc, rows, total, rates]: rows maps a valued code to *)
(* its value (None for N/A), total is the running sum.                     *)
ValueNext(c, balance, r, base_currency, acc) ==
    IF c = base_currency
    THEN [acc EXCEPT !.rows = Put(@, c, Some(balance)),
                     !.total = RatAdd(@, balance)]
    ELSE IF r.exc = "none"
    THEN [acc EXCEPT !.rows = Put(@, c, Some(RatMul(balance, ValueOf(r.rate)))),
                     !.total = RatAdd(@, RatMul(balance, ValueOf(r.rate))),
                     !.rates = r.rates]
    ELSE IF IsValueError(r.exc)
    THEN [acc EXCEPT !.rows = Put(@, c, None), !.rates = r.rates]
    ELSE [acc EXCEPT !.exc = r.exc, !.rates = r.rates]

(* The loop over sorted(portfolio.wallets.items()); it ends at the first   *)
(* exception that escapes the except clause.                               *)
RECURSIVE ValueWallets(_, _, _, _, _)
ValueWallets(codes, wallets, base_currency, t, acc) ==
    IF codes = <<>> \/ acc.exc # "none"
    THEN acc
    ELSE ValueWallets(Tail(codes), wallets, base_currency, t,
                      ValueNext(Head(codes), RatOfInt(wallets[Head(codes)]),
                                get_exchange_rate(Head(codes), base_currency, TRUE,
                                                  acc.rates, t),
                                base_currency, acc))

ValueStart(rts) == [exc |-> "none", rows |-> EmptyDict, total |-> RatOfInt(0), rates |-> rts]

(* str.upper() on the base currencies the model uses. *)
Upper(s) ==
    CASE s = "usd" -> "USD"
      [] s = "eth" -> "ETH"
      [] OTHER -> s

(* The table of cmd_show_portfolio, v the outcome of the loop. *)
ShowTable(g, v, rts) ==
    IF DOMAIN g.portfolio.wallets = {}
    THEN [out |-> "empty", exc |-> "none", rows |-> EmptyDict,
          total |-> RatOfInt(0), portfolios |-> g.portfolios, rates |-> rts]
    ELSE IF v.exc # "none"
    THEN [out |-> "error", exc |-> v.exc, rows |-> EmptyDict,
          total |-> RatOfInt(0), portfolios |-> g.portfolios, rates |-> v.rates]
    ELSE [out |-> "table", exc |-> "none", rows |-> v.rows,
          total |-> v.total, portfolios |-> g.portfolios, rates |-> v.rates]

ShowLoaded(base_currency, g, rts, t) ==
    ShowTable(g, ValueWallets(SortedCodes(g.portfolio.wallets), g.portfolio.wallets,
                              base_currency, t, ValueStart(rts)), rts)

(* cmd_show_portfolio under handle_errors and require_login: out is the    *)
(* kind of string returned.                                                *)
cmd_show_portfolio(base, cur, pfs, rts, t) ==
    IF cur = NoUser
    THEN [out |-> "login_required", exc |-> "ValueError", rows |-> EmptyDict,
          total |-> RatOfInt(0), portfolios |-> pfs, rates |-> rts]
    ELSE ShowLoaded(Upper(base), get_user_portfolio(cur.user_id, pfs), rts, t)

(* utils.reduce_portfolio_value *)
reduce_portfolio_value(portfolio, base_currency, rts, t) ==
    ValueWallets(SortedCodes(portfolio.wallets), portfolio.wallets, base_currency, t,
                 ValueStart(rts))

---------------------------------------------------------------------------
(* cli/interface.py: the trading commands under handle_errors and          *)
(* require_login.  out is the kind of string returned: "login_required",   *)
(* "error" (a message built from the exception exc) or "done".             *)

CmdTold(out, exc, r) ==
    [out |-> out, exc |-> exc, portfolios |-> r.portfolios, rates |-> r.rates,
     new_balance |-> r.new_balance]

(* A gated command called with no current user: require_login raises       *)
(* ValueError before the command body, handle_errors returns its message.  *)
LoginRequired(pfs, rts) ==
    [out |-> "login_required", exc |-> "ValueError", portfolios |-> pfs,
     rates |-> rts, new_balance |-> 0]

(* validate_currency and validate_amount_str: blank code or amount <= 0. *)
InvalidArgs(currency, amount) == Strip(currency) = "" \/ amount <= 0

(* The handlers of cmd_buy after the first call r of buy_currency; again   *)
(* is the second call, made by the ExchangeRateNotFoundError handler.      *)
BuyHandled(r, again) ==
    IF r.exc = "none" THEN CmdTold("done", "none", r)
    ELSE IF r.exc = "ExchangeRateNotFoundError"
    THEN CmdTold(IF again.exc = "none" THEN "done" ELSE "error", again.exc, again)
    ELSE CmdTold("error", r.exc, r)

BuyRetried(r, user_id, code, amount, t) ==
    BuyHandled(r, buy_currency(user_id, code, amount, r.portfolios, r.rates, t))

(* A buy command that does not ask for a login: it trades for user 1. *)
cmd_buy_ungated(currency, amount, cur, pfs, rts, t) ==
    IF InvalidArgs(currency, amount)
    THEN CmdTold("error", "ValueError",
                 TradeRaise("ValueError", <<>>, pfs, rts, FALSE, 0))
    ELSE BuyRetried(buy_currency(IF cur = NoUser THEN 1 ELSE cur.user_id,
                                 StripUpper(currency), amount, pfs, rts, t),
                    IF cur = NoUser THEN 1 ELSE cur.user_id,
                    StripUpper(currency), amount, t)

(* cmd_buy *)
cmd_buy(currency, amount, cur, pfs, rts, t) ==
    IF cur = NoUser
    THEN LoginRequired(pfs, rts)
    ELSE IF InvalidArgs(currency, amount)
    THEN CmdTold("error", "ValueError",
                 TradeRaise("ValueError", <<>>, pfs, rts, FALSE, 0))
    ELSE BuyRetried(buy_currency(cur.user_id, StripUpper(currency), amount, pfs,
                                 rts, t),
                    cur.user_id, StripUpper(currency), amount, t)

SellHandled(r, again) ==
    IF r.exc = "none" THEN CmdTold("done", "none", r)
    ELSE IF r.exc = "ExchangeRateNotFoundError"
    THEN CmdTold(IF again.exc = "none" THEN "done" ELSE "error", again.exc, again)
    ELSE CmdTold("error", r.exc, r)

SellRetried(r, user_id, code, amount, t) ==
    SellHandled(r, sell_currency(user_id, code, amount, r.portfolios, r.rates, t))

(* cmd_sell *)
cmd_sell(currency, amount, cur, pfs, rts, t) ==
    IF cur = NoUser
    THEN LoginRequired(pfs, rts)
    ELSE IF InvalidArgs(currency, amount)
    THEN CmdTold("error", "ValueError",
                 TradeRaise("ValueError", <<>>, pfs, rts, FALSE, 0))
    ELSE SellRetried(sell_currency(cur.user_id, StripUpper(currency), amount, pfs,
                                   rts, t),
                     cur.user_id, StripUpper(currency), amount, t)

---------------------------------------------------------------------------
(* cli/interface.py: cmd_get_rate.  args is the argparse Namespace, a      *)
(* function from attribute names to values.                                *)

RateTold(out, exc, rts) == [out |-> out, exc |-> exc, rates |-> rts]

(* format_output's reverse rate: ValueError, CurrencyNotFoundError and     *)
(* ApiRequestError are passed over, any other exception leaves the         *)
(* generator.                                                              *)
ReverseShown(r) ==
    IF r.exc \in {"none", "ValueError", "CurrencyNotFoundError", "ApiRequestError"}
    THEN RateTold("rate", "none", r.rates)
    ELSE RateTold("error", r.exc, r.rates)

RateShown(r, from_currency, to_currency, t) ==
    IF r.exc # "none" THEN RateTold("error", r.exc, r.rates)
    ELSE IF from_currency = to_currency THEN RateTold("rate", "none", r.rates)
    ELSE ReverseShown(get_exchange_rate(to_currency, from_currency, TRUE, r.rates, t))

(* cmd_get_rate under handle_errors *)
cmd_get_rate(args, rts, t) ==
    IF "from_currency" \notin DOMAIN args
    THEN RateTold("error", "AttributeError", rts)
    ELSE IF Strip(args["from_currency"]) = ""
    THEN RateTold("error", "ValueError", rts)
    ELSE IF "to_currency" \notin DOMAIN args
    THEN RateTold("error", "AttributeError", rts)
    ELSE IF Strip(args["to_currency"]) = ""
    THEN RateTold("error", "ValueError", rts)
    ELSE RateShown(get_exchange_rate(StripUpper(args["from_currency"]),
                                     StripUpper(args["to_currency"]), TRUE, rts, t),
                   StripUpper(args["from_currency"]),
                   StripUpper(args["to_currency"]), t)

---------------------------------------------------------------------------
(* cli/interface.py: cmd_register and cmd_login under handle_errors. *)

(* cmd_register: the name is stripped before register_user sees it. *)
cmd_register(args, us, pfs) ==
    IF Strip(args["username"]) = ""
    THEN [exc |-> "none", users |-> us, portfolios |-> pfs, user |-> NoUser,
          out |-> "error"]
    ELSE register_user(Strip(args["username"]), args["password"], us, pfs) @@
         [out |-> IF register_user(Strip(args["username"]), args["password"], us,
                                   pfs).exc = "none"
                  THEN "done" ELSE "error"]

(* cmd_login *)
cmd_login(args, us, cur) ==
    login_user(args["username"], args["password"], us, cur) @@
    [out |-> IF login_user(args["username"], args["password"], us, cur).exc = "none"
             THEN "done" ELSE "error"]

---------------------------------------------------------------------------
(* parser_service: the refresh pipeline.  The history file is              *)
(* [readable, records]: readable is FALSE when the file is no valid JSON.  *)

EmptyHistory == [readable |-> TRUE, records |-> <<>>]

(* The pair keys of the model, in the order the providers yield them. *)
PairOrder == <<<<"ETH", "USD">>, <<"EUR", "USD">>>>

(* storage.save_rate_to_history *)
save_rate_to_history(from_currency, to_currency, rate, source, hist, t) ==
    [readable |-> TRUE,
     records |-> Append(IF hist.readable THEN hist.records ELSE <<>>,
                        [id |-> <<from_currency, to_currency, UtcZTs(t)>>,
                         from_currency |-> Upper(from_currency),
                         to_currency |-> Upper(to_currency),
                         rate |-> rate, timestamp |-> UtcZTs(t), source |-> source])]

(* storage.save_rates_cache: the file it writes. *)
save_rates_cache(all_rates, all_sources, t) ==
    [pairs |-> [k \in DOMAIN all_rates |->
                   Entry(Some(all_rates[k]), UtcZTs(t),
                         IF k \in DOMAIN all_sources THEN all_sources[k] ELSE "Unknown")],
     top |-> EmptyDict,
     last_refresh |-> UtcZTs(t)]

(* The loop of run_update over all_rates.items(). *)
RECURSIVE SaveHistory(_, _, _, _, _)
SaveHistory(keys, all_rates, all_sources, hist, t) ==
    IF keys = <<>> THEN hist
    ELSE SaveHistory(Tail(keys), all_rates, all_sources,
                     save_rate_to_history(Head(keys)[1], Head(keys)[2],
                                          all_rates[Head(keys)],
                                          all_sources[Head(keys)], hist, t),
                     t)

(* What run_update takes from a client: its rates, or nothing when the     *)
(* client is not selected or raises.                                       *)
ClientRates(use, outcome) == IF use /\ outcome.ok THEN outcome.rates ELSE EmptyDict

ClientErrors(use, outcome, message) == IF use /\ ~outcome.ok THEN <<message>> ELSE <<>>

(* run_update after the clients were asked: cgRates and erRates are what   *)
(* they gave, errors the list of failures.                                 *)
Collected(cgRates, erRates, errors, rts, hist, t) ==
    IF DOMAIN Update(cgRates, erRates) = {}
    THEN [exc |-> IF errors # <<>> THEN "Exception" ELSE "none",
          updated |-> 0, errors |-> errors, rates |-> rts, history |-> hist]
    ELSE [exc |-> "none", updated |-> Cardinality(DOMAIN Update(cgRates, erRates)),
          errors |-> errors,
          rates |-> save_rates_cache(
                       Update(cgRates, erRates),
                       [k \in DOMAIN Update(cgRates, erRates) |->
                           IF k \in DOMAIN erRates THEN "ExchangeRate-API"
                           ELSE "CoinGecko"], t),
          history |-> SaveHistory(
                       SelectSeq(PairOrder, LAMBDA k : k \in DOMAIN cgRates)
                       \o SelectSeq(PairOrder, LAMBDA k : k \in DOMAIN erRates
                                                           /\ k \notin DOMAIN cgRates),
                       Update(cgRates, erRates),
                       [k \in DOMAIN Update(cgRates, erRates) |->
                           IF k \in DOMAIN erRates THEN "ExchangeRate-API"
                           ELSE "CoinGecko"],
                       hist, t)]

(* updater.RatesUpdater.run_update.  source is "all" (None), "coingecko"   *)
(* or "exchangerate"; cg and er are what the two clients' fetch_rates do:  *)
(* [ok, rates], ok FALSE when the client raises.                           *)
run_update(source, cg, er, rts, hist, t) ==
    Collected(ClientRates(source \in {"all", "coingecko"}, cg),
              ClientRates(source \in {"all", "exchangerate"}, er),
              ClientErrors(source \in {"all", "coingecko"}, cg,
                           "Failed to fetch from CoinGecko")
              \o ClientErrors(source \in {"all", "exchangerate"}, er,
                              "Failed to fetch from ExchangeRate-API"),
              rts, hist, t)

---------------------------------------------------------------------------
(* cli/interface.py: the rate commands, COMMAND_HANDLERS, parse_command.   *)

(* The value of an option that was not given and has the default None. *)
NoArg == "None"

(* cmd_update_rates: cg and er are what the two clients do. *)
UpdateTold(r) ==
    [out |-> IF r.exc # "none" THEN "error"
             ELSE IF r.errors # <<>> THEN "updated_with_errors" ELSE "updated",
     exc |-> r.exc, rates |-> r.rates, history |-> r.history]

cmd_update_rates(args, cg, er, rts, hist, t) ==
    IF args["source"] \notin {NoArg, "coingecko", "exchangerate"}
    THEN [out |-> "unknown_source", exc |-> "none", rates |-> rts, history |-> hist]
    ELSE UpdateTold(run_update(IF args["source"] = NoArg THEN "all" ELSE args["source"],
                               cg, er, rts, hist, t))

(* cmd_show_rates, with the --currency filter: it only reads the cache.    *)
(* A file without pairs is listed by its top-level entries.                *)
cmd_show_rates(args, rts) ==
    IF DOMAIN rts.pairs = {} /\ DOMAIN rts.top = {} THEN "cache_empty"
    ELSE IF args["currency"] # NoArg
            /\ ~\E k \in (IF DOMAIN rts.pairs # {} THEN DOMAIN rts.pairs
                           ELSE DOMAIN rts.top) :
                    Upper(args["currency"]) \in {k[1], k[2]}
    THEN "not_found"
    ELSE "rates"

(* COMMAND_HANDLERS: for each command the options its parser accepts, the  *)
(* attribute each one sets, and the options that are required.             *)
ParserDests(command) ==
    CASE command \in {"register", "login"} ->
             ("--username" :> "username") @@ ("--password" :> "password")
      [] command = "show-portfolio" -> ("--base" :> "base")
      [] command \in {"buy", "sell"} ->
             ("--currency" :> "currency") @@ ("--amount" :> "amount")
      [] command = "get-rate" -> ("--from" :> "from_currency") @@ ("--to" :> "to")
      [] command = "update-rates" -> ("--source" :> "source")
      [] command = "show-rates" ->
             ("--currency" :> "currency") @@ ("--top" :> "top") @@ ("--base" :> "base")

Commands ==
    {"register", "login", "show-portfolio", "buy", "sell", "get-rate",
     "update-rates", "show-rates"}

RequiredOptions(command) ==
    IF command \in {"register", "login", "buy", "sell", "get-rate"}
    THEN DOMAIN ParserDests(command)
    ELSE {}

(* parser.parse_args(args): the Namespace, for options that are accepted   *)
(* and complete.  An option that is not given has its default: USD for     *)
(* --base of show-portfolio, None for every other.                         *)
Namespace(command, opts) ==
    [d \in {ParserDests(command)[o] : o \in DOMAIN ParserDests(command)} |->
        LET o == CHOOSE x \in DOMAIN ParserDests(command) : ParserDests(command)[x] = d
        IN  IF o \in DOMAIN opts THEN opts[o]
            ELSE IF command = "show-portfolio" /\ o = "--base" THEN "USD"
            ELSE NoArg]

(* What parse_command does on st, the stores and the session (a record of  *)
(* users, portfolios, rates, history and current_user): the string it      *)
(* returns (out is its kind) and the stores afterwards.  When an exception *)
(* leaves the try block, raised names it and out is empty.                 *)
Cli(out, exc, st) == [out |-> out, exc |-> exc, raised |-> "none", st |-> st]

(* A handler has returned r: the stores it wrote are fields of r, the      *)
(* others are left as they were.                                           *)
Handled(st, r) ==
    Cli(r.out, r.exc, [k \in DOMAIN st |-> IF k \in DOMAIN r THEN r[k] ELSE st[k]])

(* The handlers, each given the Namespace. *)
Handler(command, args, st, cg, er, t) ==
    CASE command = "register" ->
             Handled(st, cmd_register(args, st.users, st.portfolios))
      [] command = "login" -> Handled(st, cmd_login(args, st.users, st.current_user))
      [] command = "show-portfolio" ->
             Handled(st, cmd_show_portfolio(IF args["base"] = "" THEN "USD"
                                           ELSE args["base"],
                                           st.current_user, st.portfolios, st.rates, t))
      [] command = "buy" ->
             Handled(st, cmd_buy(args["currency"], args["amount"], st.current_user,
                                st.portfolios, st.rates, t))
      [] command = "sell" ->
             Handled(st, cmd_sell(args["currency"], args["amount"], st.current_user,
                                 st.portfolios, st.rates, t))
      [] command = "get-rate" -> Handled(st, cmd_get_rate(args, st.rates, t))
      [] command = "update-rates" ->
             Handled(st, cmd_update_rates(args, cg, er, st.rates, st.history, t))
      [] command = "show-rates" -> Cli(cmd_show_rates(args, st.rates), "none", st)

(* The try block of parse_command.  A line is blank, has an unbalanced     *)
(* quote (shlex.split raises ValueError), or is a command word with        *)
(* options.  An option the parser does not know and a missing required     *)
(* option end in parser.error(), which raises SystemExit.                  *)
TryBlock(line, st, cg, er, t) ==
    IF line.kind = "unbalanced"
    THEN [out |-> "", exc |-> "ValueError", raised |-> "ValueError", st |-> st]
    ELSE IF line.command \in {"exit", "quit"} THEN Cli("exit", "none", st)
    ELSE IF line.command \notin Commands THEN Cli("unknown_command", "none", st)
    ELSE IF \/ ~(DOMAIN line.opts \subseteq DOMAIN ParserDests(line.command))
            \/ ~(RequiredOptions(line.command) \subseteq DOMAIN line.opts)
    THEN [out |-> "", exc |-> "SystemExit", raised |-> "SystemExit", st |-> st]
    ELSE Handler(line.command, Namespace(line.command, line.opts), st, cg, er, t)

(* except SystemExit / except Exception: KeyboardInterrupt and            *)
(* GeneratorExit are not subclasses of Exception and pass through.         *)
Caught(r) ==
    IF r.raised = "none" THEN r
    ELSE IF r.raised = "SystemExit" THEN Cli("args_error", r.raised, r.st)
    ELSE IF r.raised \notin {"KeyboardInterrupt", "GeneratorExit"}
    THEN Cli("error", r.raised, r.st)
    ELSE r

(* A parse_command that catches SystemExit only. *)
parse_command_uncaught(line, st, cg, er, t) ==
    IF line.kind = "blank" THEN Cli("", "none", st)
    ELSE IF TryBlock(line, st, cg, er, t).raised = "SystemExit"
    THEN Caught(TryBlock(line, st, cg, er, t))
    ELSE TryBlock(line, st, cg, er, t)

(* parse_command *)
parse_command(line, st, cg, er, t) ==
    IF line.kind = "blank" THEN Cli("", "none", st)
    ELSE Caught(TryBlock(line, st, cg, er, t))

---------------------------------------------------------------------------
(* The inputs of the operations. *)

RegisterNames == {"alice"}

LoginNames == {"alice", "bob"}

(* Names for the accounts specification: " alice" differs from "alice"    *)
(* by a leading blank only.                                                *)
UserNames == {"alice", " alice", "bob"}

RegisterPasswords == {"abcd", "abc"}

UserPasswords == {"abcd", "wxyz", "abc"}

LoginPasswords == {"abcd", "wxyz"}

(* EUR is in EXCHANGE_RATES, ETH is registered but not in it, XYZ is not   *)
(* registered.                                                             *)
TradeCodes == {"EUR", "ETH", "XYZ"}

Amounts == {0, 1, 2}

BaseCodes == {"USD", "ETH"}

RateCodes == {"USD", "EUR", "ETH", "XYZ"}

(* The pairs asked of the resolver: every pair with USD on one side. *)
RateArgs == {a \in RateCodes \X RateCodes : a[1] = "USD" \/ a[2] = "USD"}

(* Pairs given in a spelling get_currency accepts but that is not the      *)
(* registered one: lower case, surrounding blanks.                         *)
RawRateArgs == {<<"usd", "USD">>, <<" eur ", "USD">>}

(* What is typed after buy and sell: a lower-case registered code, an      *)
(* unregistered code, a blank; a positive amount or zero.                  *)
CmdCodes == {"eth", "XYZ", " "}

CmdAmounts == {0, 1}

(* The lines typed at the prompt: a blank line, a line with an unbalanced  *)
(* quote, or a command word with its options.                              *)
ExitLines ==
    {[kind |-> "words", command |-> c, opts |-> EmptyDict] : c \in {"exit", "quit"}}

CliLines ==
    LET Line(command, opts) == [kind |-> "words", command |-> command, opts |-> opts]
    IN
    {[kind |-> "blank", command |-> "", opts |-> EmptyDict],
     [kind |-> "unbalanced", command |-> "", opts |-> EmptyDict],
     Line("exit", ("now" :> "")),
     Line("deposit", EmptyDict),
     Line("register", ("--username" :> "alice") @@ ("--password" :> "abcd")),
     Line("register", ("--username" :> " ") @@ ("--password" :> "abcd")),
     Line("register", ("--username" :> "alice")),
     Line("login", ("--username" :> "alice") @@ ("--password" :> "abcd")),
     Line("login", ("--username" :> "alice") @@ ("--password" :> "wxyz")),
     Line("buy", ("--currency" :> "EUR") @@ ("--amount" :> 1)),
     Line("buy", ("--currency" :> "EUR") @@ ("--amount" :> 0)),
     Line("buy", ("--currency" :> "EUR")),
     Line("sell", ("--currency" :> "EUR") @@ ("--amount" :> 1)),
     Line("show-portfolio", EmptyDict),
     Line("get-rate", ("--from" :> "EUR") @@ ("--to" :> "USD")),
     Line("update-rates", EmptyDict),
     Line("update-rates", ("--source" :> "binance")),
     Line("show-rates", EmptyDict),
     Line("show-rates", ("--verbose" :> ""))}
    \cup ExitLines

Sources == {"all", "coingecko", "exchangerate"}

(* What a client's fetch_rates can do: raise, or return a mapping. *)
CoinGeckoOutcomes ==
    {[ok |-> FALSE, rates |-> EmptyDict],
     [ok |-> TRUE, rates |-> (<<"ETH", "USD">> :> Rat(2, 1))]}

ExchangeRateOutcomes ==
    {[ok |-> FALSE, rates |-> EmptyDict],
     [ok |-> TRUE, rates |-> (<<"EUR", "USD">> :> Rat(3, 2))]}

(* The clients of the pipeline specification: a client raises, returns an *)
(* empty mapping, or returns rates; the second client can return a pair    *)
(* the first one returns too.                                              *)
PipeCoinGecko ==
    {[ok |-> FALSE, rates |-> EmptyDict],
     [ok |-> TRUE, rates |-> EmptyDict],
     [ok |-> TRUE, rates |-> (<<"ETH", "USD">> :> Rat(2, 1))]}

PipeExchangeRate ==
    {[ok |-> FALSE, rates |-> EmptyDict],
     [ok |-> TRUE, rates |-> EmptyDict],
     [ok |-> TRUE, rates |-> (<<"EUR", "USD">> :> Rat(3, 2))],
     [ok |-> TRUE, rates |-> (<<"ETH", "USD">> :> Rat(3, 1))
                             @@ (<<"EUR", "USD">> :> Rat(3, 2))]}

---------------------------------------------------------------------------
(* The contents data/rates.json can have when the process starts.  The     *)
(* file outlives the process, so an entry may be older than the start      *)
(* (time 0), and nothing validates what the file holds: a rate may be      *)
(* missing, zero or negative, a timestamp missing or no ISO date.          *)

InitRateValues == {None, Some(Rat(0, 1)), Some(Rat(-1, 1)), Some(Rat(2, 1))}

InitTimestamps == {NoTs, GarbageTs, NaiveTs(0), NaiveTs(-rates_ttl_seconds)}

InitEntries == {Entry(r, ts, "") : r \in InitRateValues, ts \in InitTimestamps}

InitPairKeys == {<<"EUR", "USD">>, <<"ETH", "USD">>, <<"USD", "ETH">>}

InitRates ==
    {EmptyRates}
    \cup {[EmptyRates EXCEPT !.pairs = (k :> e)] : k \in InitPairKeys, e \in InitEntries}
    \cup {[EmptyRates EXCEPT !.pairs = (<<"ETH", "USD">> :> EmptyEntry) @@ (<<"USD", "ETH">> :> e)]
            : e \in InitEntries}

Init ==
    /\ users = <<>>
    /\ portfolios = <<>>
    /\ rates \in InitRates
    /\ history = EmptyHistory
    /\ current_user = NoUser
    /\ now = 0
    /\ last = [op |-> "init"]
    /\ running = TRUE
    /\ procs = EmptyDict

---------------------------------------------------------------------------
(* The operations.  last keeps the name of the operation and what it told  *)
(* its caller.                                                             *)

RegisterUser(username, password, cap) ==
    LET r == register_user(username, password, users, portfolios)
    IN  /\ Len(users) < cap
        /\ users' = r.users
        /\ portfolios' = r.portfolios
        /\ last' = [op |-> "register_user", username |-> username,
                    password |-> password, exc |-> r.exc,
                    user_id |-> r.user.user_id]
        /\ UNCHANGED <<rates, history, current_user, now, running, procs>>

LoginUser(username, password) ==
    LET r == login_user(username, password, users, current_user)
    IN  /\ current_user' = r.current_user
        /\ last' = [op |-> "login_user", username |-> username,
                    password |-> password, exc |-> r.exc]
        /\ UNCHANGED <<users, portfolios, rates, history, now, running, procs>>

(* What is kept of a trade: its arguments, the stored balance of the       *)
(* wallet before it (-1 when there was none), and what it told: the        *)
(* exception, the balance of the wallet object, whether rate and value are *)
(* present in the result dict.                                             *)
TradeTold(op, user_id, currency_code, amount, r) ==
    [op |-> op, user_id |-> user_id, currency_code |-> currency_code,
     amount |-> amount,
     before |-> StoredBalance(portfolios, user_id, get_currency(currency_code).code),
     exc |-> r.exc, currency |-> r.currency, balance |-> r.balance,
     mutated |-> r.mutated, saved |-> r.saved,
     rate |-> r.rate.has, value |-> r.value.has]

BuyCurrency(i, currency_code, amount) ==
    LET user_id == users[i].user_id
        r == buy_currency(user_id, currency_code, amount, portfolios, rates, now)
    IN  /\ r.new_balance <= MaxBalance
        /\ portfolios' = r.portfolios
        /\ rates' = r.rates
        /\ last' = TradeTold("buy_currency", user_id, currency_code, amount, r)
        /\ UNCHANGED <<users, history, current_user, now, running, procs>>

SellCurrency(i, currency_code, amount) ==
    LET user_id == users[i].user_id
        r == sell_currency(user_id, currency_code, amount, portfolios, rates, now)
    IN  /\ portfolios' = r.portfolios
        /\ rates' = r.rates
        /\ last' = TradeTold("sell_currency", user_id, currency_code, amount, r)
        /\ UNCHANGED <<users, history, current_user, now, running, procs>>

CmdShowPortfolio(base) ==
    LET r == cmd_show_portfolio(base, current_user, portfolios, rates, now)
    IN  /\ portfolios' = r.portfolios
        /\ rates' = r.rates
        /\ last' = [op |-> "cmd_show_portfolio", base |-> base, exc |-> r.exc,
                    out |-> r.out, rows |-> DOMAIN r.rows,
                    na |-> {c \in DOMAIN r.rows : r.rows[c] = None}]
        /\ UNCHANGED <<users, history, current_user, now, running, procs>>

CmdBuy(currency, amount) ==
    LET r == cmd_buy(currency, amount, current_user, portfolios, rates, now)
    IN  /\ r.new_balance <= MaxBalance
        /\ portfolios' = r.portfolios
        /\ rates' = r.rates
        /\ last' = [op |-> "cmd_buy", currency |-> currency, amount |-> amount,
                    out |-> r.out, exc |-> r.exc]
        /\ UNCHANGED <<users, history, current_user, now, running, procs>>

CmdSell(currency, amount) ==
    LET r == cmd_sell(currency, amount, current_user, portfolios, rates, now)
    IN  /\ portfolios' = r.portfolios
        /\ rates' = r.rates
        /\ last' = [op |-> "cmd_sell", currency |-> currency, amount |-> amount,
                    out |-> r.out, exc |-> r.exc]
        /\ UNCHANGED <<users, history, current_user, now, running, procs>>

ReducePortfolioValue(i, base) ==
    LET r == reduce_portfolio_value(from_dict(portfolios[i]), base, rates, now)
    IN  /\ rates' = r.rates
        /\ last' = [op |-> "reduce_portfolio_value", user_id |-> portfolios[i].user_id,
                    base |-> base, exc |-> r.exc, rows |-> DOMAIN r.rows]
        /\ UNCHANGED <<users, portfolios, history, current_user, now,
                       running, procs>>

GetExchangeRate(from_currency, to_currency, use_cache) ==
    LET r == get_exchange_rate(from_currency, to_currency, use_cache, rates, now)
    IN  /\ rates' = r.rates
        /\ last' = [op |-> "get_exchange_rate", exc |-> r.exc, via |-> r.via,
                    from_currency |-> from_currency, to_currency |-> to_currency,
                    use_cache |-> use_cache, rate |-> r.rate, ts |-> r.ts,
                    reads |-> r.reads, api |-> r.api, writes |-> r.writes]
        /\ UNCHANGED <<users, portfolios, history, current_user, now,
                       running, procs>>

RunUpdate(source, cg, er, cap) ==
    LET r == run_update(source, cg, er, rates, history, now)
    IN  /\ Len(r.history.records) <= cap
        /\ rates' = r.rates
        /\ history' = r.history
        /\ last' = [op |-> "run_update", source |-> source, exc |-> r.exc,
                    updated |-> r.updated, errors |-> Len(r.errors)]
        /\ UNCHANGED <<users, portfolios, current_user, now, running, procs>>

(* One pass of the loop of main_cli on the line read by input(): a blank  *)
(* line is skipped, exit and quit leave the loop, every other line goes to *)
(* parse_command and its result is printed.                                *)
MainCliParsed(line, r) ==
    /\ Len(r.st.users) <= MaxAccounts
    /\ Len(r.st.history.records) <= MaxRecords
    /\ \A i \in DOMAIN r.st.portfolios :
           \A c \in DOMAIN r.st.portfolios[i].wallets :
               r.st.portfolios[i].wallets[c].balance <= MaxBalance
    /\ users' = r.st.users
    /\ portfolios' = r.st.portfolios
    /\ rates' = r.st.rates
    /\ history' = r.st.history
    /\ current_user' = r.st.current_user
    /\ running' = (r.raised = "none")
    /\ last' = [op |-> "main_cli", line |-> line, out |-> r.out, exc |-> r.exc,
                raised |-> r.raised]
    /\ UNCHANGED <<now, procs>>

MainCli(line, cg, er) ==
    /\ running
    /\ IF line \in ExitLines
       THEN /\ running' = FALSE
            /\ last' = [op |-> "main_cli", line |-> line, out |-> "bye",
                        exc |-> "none", raised |-> "none"]
            /\ UNCHANGED <<users, portfolios, rates, history, current_user, now,
                           procs>>
       ELSE MainCliParsed(line,
                          parse_command(line,
                                        [users |-> users, portfolios |-> portfolios,
                                         rates |-> rates, history |-> history,
                                         current_user |-> current_user],
                                        cg, er, now))

(* input() raises EOFError, or the user interrupts: the loop is left. *)
MainCliEnd(exc) ==
    /\ running
    /\ running' = FALSE
    /\ last' = [op |-> "main_cli_end", exc |-> exc]
    /\ UNCHANGED <<users, portfolios, rates, history, current_user, now, procs>>

(* buy_currency run by process p step by step; between its steps another  *)
(* process can run its own.  procs[p] is where p is (pc: "loaded" after    *)
(* get_user_portfolio and wallet.deposit, "valued" after the rate lookup,  *)
(* "done" after save_portfolio or an exception) and what it holds: the     *)
(* Portfolio object, the balance it read and the balance it computed.      *)
Proc(pc, exc, user_id, code, amount, old_balance, portfolio) ==
    [pc |-> pc, exc |-> exc, user_id |-> user_id, code |-> code, amount |-> amount,
     old_balance |-> old_balance, portfolio |-> portfolio]

BuyLoaded_step(p, user_id, code, amount, g, old_balance) ==
    /\ old_balance + amount <= MaxBalance
    /\ portfolios' = g.portfolios
    /\ procs' = Put(procs, p,
                    Proc("loaded", "none", user_id, code, amount, old_balance,
                         Portfolio(user_id,
                                   Put(g.portfolio.wallets, code,
                                       deposit(old_balance, amount).balance))))

BuyLoad(p, user_id, currency_code, amount) ==
    /\ p \notin DOMAIN procs
    /\ IF amount <= 0
       THEN /\ procs' = Put(procs, p,
                            Proc("done", "ValidationError", user_id, currency_code,
                                 amount, 0, Portfolio(user_id, EmptyDict)))
            /\ UNCHANGED portfolios
       ELSE IF get_currency(currency_code).exc # "none"
       THEN /\ procs' = Put(procs, p,
                            Proc("done", get_currency(currency_code).exc, user_id,
                                 currency_code, amount, 0,
                                 Portfolio(user_id, EmptyDict)))
            /\ UNCHANGED portfolios
       ELSE BuyLoaded_step(p, user_id, get_currency(currency_code).code, amount,
                           get_user_portfolio(user_id, portfolios),
                           IF StoredBalance(portfolios, user_id,
                                            get_currency(currency_code).code) = -1
                           THEN 0
                           ELSE StoredBalance(portfolios, user_id,
                                              get_currency(currency_code).code))
    /\ last' = [op |-> "buy_load", p |-> p]
    /\ UNCHANGED <<users, rates, history, current_user, now, running>>

BuyValued_step(p, r, c) ==
    /\ rates' = r.rates
    /\ procs' = [procs EXCEPT ![p].pc =
                     IF \/ r.exc \notin {"none", "ExchangeRateNotFoundError"}
                        \/ r.exc = "none" /\ c.exc # "none"
                     THEN "done" ELSE "valued",
                               ![p].exc =
                     IF r.exc \notin {"none", "ExchangeRateNotFoundError"} THEN r.exc
                     ELSE IF r.exc = "none" /\ c.exc # "none" THEN c.exc
                     ELSE "none"]

BuyValue(p) ==
    /\ p \in DOMAIN procs
    /\ procs[p].pc = "loaded"
    /\ BuyValued_step(p, get_exchange_rate(procs[p].code, "USD", TRUE, rates, now),
                      convert_currency_amount(
                          procs[p].amount, procs[p].code, "USD",
                          ValueOf(get_exchange_rate(procs[p].code, "USD", TRUE, rates,
                                                    now).rate)))
    /\ last' = [op |-> "buy_value", p |-> p]
    /\ UNCHANGED <<users, portfolios, history, current_user, now, running>>

BuySave(p) ==
    /\ p \in DOMAIN procs
    /\ procs[p].pc = "valued"
    /\ portfolios' = save_portfolio(procs[p].portfolio, portfolios)
    /\ procs' = [procs EXCEPT ![p].pc = "done"]
    /\ last' = [op |-> "buy_save", p |-> p]
    /\ UNCHANGED <<users, rates, history, current_user, now, running>>

(* Wallet.deposit and Wallet.withdraw called on the Wallet object of a     *)
(* currency code: self._balance is procs[code].                            *)
WalletDeposit(code, amount) ==
    /\ code \in DOMAIN procs
    /\ deposit(procs[code], amount).balance <= MaxBalance
    /\ procs' = [procs EXCEPT ![code] = deposit(procs[code], amount).balance]
    /\ last' = [op |-> "deposit", code |-> code, amount |-> amount,
                balance |-> procs[code], exc |-> deposit(procs[code], amount).exc]
    /\ UNCHANGED <<users, portfolios, rates, history, current_user, now, running>>

WalletWithdraw(code, amount) ==
    /\ code \in DOMAIN procs
    /\ procs' = [procs EXCEPT ![code] = withdraw(procs[code], amount).balance]
    /\ last' = [op |-> "withdraw", code |-> code, amount |-> amount,
                balance |-> procs[code], exc |-> withdraw(procs[code], amount).exc]
    /\ UNCHANGED <<users, portfolios, rates, history, current_user, now, running>>

(* Time passes between two commands. *)
Tick ==
    /\ now < MaxTicks * TickSeconds
    /\ now' = now + TickSeconds
    /\ last' = [op |-> "tick"]
    /\ UNCHANGED <<users, portfolios, rates, history, current_user,
                   running, procs>>

---------------------------------------------------------------------------
(* The ledger: accounts, trading and the valuation of portfolios, on every *)
(* initial content of the rate cache.                                      *)

Next ==
    \/ \E u \in RegisterNames, p \in RegisterPasswords : RegisterUser(u, p, MaxUsers)
    \/ \E u \in LoginNames, p \in LoginPasswords : LoginUser(u, p)
    \/ \E i \in DOMAIN users, c \in TradeCodes, a \in Amounts : BuyCurrency(i, c, a)
    \/ \E i \in DOMAIN users, c \in TradeCodes, a \in Amounts : SellCurrency(i, c, a)
    \/ \E b \in BaseCodes : CmdShowPortfolio(b)
    \/ \E i \in DOMAIN portfolios, b \in BaseCodes : ReducePortfolioValue(i, b)

Spec == Init /\ [][Next]_vars

(* The accounts and the session: registration, login and the commands     *)
(* that ask for a login, from an empty rate cache.                         *)

InitUsers == Init /\ rates = EmptyRates

NextUsers ==
    \/ \E u \in UserNames, p \in UserPasswords : RegisterUser(u, p, MaxAccounts)
    \/ \E u \in UserNames, p \in LoginPasswords : LoginUser(u, p)
    \/ \E c \in CmdCodes, a \in CmdAmounts : CmdBuy(c, a)
    \/ \E c \in CmdCodes, a \in CmdAmounts : CmdSell(c, a)
    \/ \E b \in BaseCodes : CmdShowPortfolio(b)

SpecUsers == InitUsers /\ [][NextUsers]_vars

(* Two processes on the same data directory, each running one             *)
(* buy_currency for the registered user, their steps interleaved.          *)

Procs == {1, 2}

ProcCodes == {"EUR", "ETH"}

InitShared ==
    /\ users = <<[user_id |-> 1, username |-> "alice", password |-> "abcd"]>>
    /\ portfolios \in {<<to_dict(Portfolio(1, EmptyDict))>>,
                        <<to_dict(Portfolio(1, ("EUR" :> 1)))>>}
    /\ rates \in InitRates
    /\ history = EmptyHistory
    /\ current_user = NoUser
    /\ now = 0
    /\ last = [op |-> "init"]
    /\ running = TRUE
    /\ procs = EmptyDict

NextShared ==
    \/ \E p \in Procs, c \in ProcCodes, a \in CmdAmounts : BuyLoad(p, 1, c, a)
    \/ \E p \in Procs : BuyValue(p)
    \/ \E p \in Procs : BuySave(p)

SpecShared == InitShared /\ [][NextShared]_vars

(* The Wallet objects of two currencies, each constructed with a balance   *)
(* the setter accepts, and the calls of their deposit and withdraw with    *)
(* every amount, the non-positive ones included.                           *)

InitWallet ==
    /\ users = <<>>
    /\ portfolios = <<>>
    /\ rates = EmptyRates
    /\ history = EmptyHistory
    /\ current_user = NoUser
    /\ now = 0
    /\ last = [op |-> "init"]
    /\ running = TRUE
    /\ procs \in [ProcCodes -> 0 .. MaxBalance]

NextWallet ==
    \/ \E c \in ProcCodes, a \in -1 .. MaxBalance : WalletDeposit(c, a)
    \/ \E c \in ProcCodes, a \in -1 .. MaxBalance : WalletWithdraw(c, a)

SpecWallet == InitWallet /\ [][NextWallet]_vars

(* Two registered users who trade in turn.  Each has a portfolio record    *)
(* with no wallet or with two, or no record yet (it is created on the      *)
(* first access); the rate cache is empty or holds an EUR/USD entry of the *)
(* start, whose rate may be missing, zero or negative.                     *)

InitTraders ==
    /\ users = <<[user_id |-> 1, username |-> "alice", password |-> "abcd"],
                 [user_id |-> 2, username |-> "bob", password |-> "wxyz"]>>
    /\ LET Held == {EmptyDict, ("EUR" :> 1) @@ ("ETH" :> 0)}
       IN  portfolios \in
               {<<to_dict(Portfolio(1, v)), to_dict(Portfolio(2, w))>> :
                    v \in Held, w \in Held}
               \cup {<<to_dict(Portfolio(u, w))>> : u \in {1, 2}, w \in Held}
    /\ rates \in {EmptyRates}
                 \cup {[EmptyRates EXCEPT
                           !.pairs = (<<"EUR", "USD">> :> Entry(r, NaiveTs(0), ""))]
                         : r \in InitRateValues}
    /\ history = EmptyHistory
    /\ current_user = NoUser
    /\ now = 0
    /\ last = [op |-> "init"]
    /\ running = TRUE
    /\ procs = EmptyDict

NextTraders ==
    \/ \E i \in DOMAIN users, c \in ProcCodes, a \in CmdAmounts : BuyCurrency(i, c, a)
    \/ \E i \in DOMAIN users, c \in ProcCodes, a \in CmdAmounts : SellCurrency(i, c, a)

SpecTraders == InitTraders /\ [][NextTraders]_vars

(* The command line: every line of CliLines typed at the prompt of        *)
(* main_cli, from empty stores.                                            *)

NextCli ==
    \/ \E line \in CliLines, cg \in CoinGeckoOutcomes, er \in ExchangeRateOutcomes :
          MainCli(line, cg, er)
    \/ \E exc \in {"EOFError", "KeyboardInterrupt"} : MainCliEnd(exc)

SpecCli == InitUsers /\ [][NextCli]_vars

(* The refresh pipeline on what earlier runs left, with the resolver's     *)
(* stub writing to the same file, and the clock.  An earlier run left a    *)
(* snapshot in data/rates.json and a history file, which may not be valid  *)
(* JSON any more.                                                          *)

InitPipeline ==
    /\ users = <<>>
    /\ portfolios = <<>>
    /\ LET OldEntry(src) == Entry(Some(Rat(1, 1)), UtcZTs(-TickSeconds), src)
       IN  rates \in
               {EmptyRates}
               \cup {[pairs |-> p, top |-> EmptyDict,
                      last_refresh |-> UtcZTs(-TickSeconds)]
                       : p \in {(<<"ETH", "USD">> :> OldEntry("CoinGecko")),
                                (<<"EUR", "USD">> :> OldEntry("ExchangeRate-API")),
                                (<<"ETH", "USD">> :> OldEntry("CoinGecko"))
                                @@ (<<"EUR", "USD">> :> OldEntry("ExchangeRate-API"))}}
    /\ LET OldRecord ==
               [id |-> <<"ETH", "USD", UtcZTs(-TickSeconds)>>, from_currency |-> "ETH",
                to_currency |-> "USD", rate |-> Rat(1, 1),
                timestamp |-> UtcZTs(-TickSeconds), source |-> "CoinGecko"]
       IN  history \in {EmptyHistory,
                        [readable |-> TRUE, records |-> <<OldRecord>>],
                        [readable |-> FALSE, records |-> <<OldRecord>>]}
    /\ current_user = NoUser
    /\ now = 0
    /\ last = [op |-> "init"]
    /\ running = TRUE
    /\ procs = EmptyDict

NextPipeline ==
    \/ \E s \in Sources, cg \in PipeCoinGecko, er \in PipeExchangeRate :
          RunUpdate(s, cg, er, MaxRecords)
    \/ \E uc \in BOOLEAN : GetExchangeRate("EUR", "USD", uc)
    \/ Tick

SpecPipeline == InitPipeline /\ [][NextPipeline]_vars

(* The rate resolver and the refresh pipeline, with the clock. *)

NextRate ==
    \/ \E a \in RateArgs \cup RawRateArgs, uc \in BOOLEAN :
          GetExchangeRate(a[1], a[2], uc)
    \/ \E s \in Sources, cg \in CoinGeckoOutcomes, er \in ExchangeRateOutcomes :
          RunUpdate(s, cg, er, MaxHistory)
    \/ Tick

SpecRate == Init /\ [][NextRate]_vars

---------------------------------------------------------------------------
(* Properties of the ledger, checked under Spec.                           *)

(* The balance a trade starts from: the stored one, 0 for a new wallet. *)
BalanceBefore(user_id, code) ==
    IF StoredBalance(portfolios, user_id, code) < 0 THEN 0
    ELSE StoredBalance(portfolios, user_id, code)

(* No rate from code to USD is resolvable: the pair is cached in neither   *)
(* direction, the external source fails, the static table lacks the code.  *)
NoRateToUSD(code) ==
    /\ <<code, "USD">> \notin DOMAIN rates.pairs
    /\ <<"USD", code>> \notin DOMAIN rates.pairs
    /\ update_exchange_rate_from_api(code, "USD", rates, now).exc # "none"
    /\ code \notin DOMAIN EXCHANGE_RATES

(* C1: after any sequence of register, login, buy and sell operations,     *)
(* successful or failing, every wallet balance of every persisted          *)
(* portfolio is at least 0.                                                *)
C1_BalancesNonNegative ==
    \A i \in DOMAIN portfolios :
        \A c \in DOMAIN portfolios[i].wallets :
            portfolios[i].wallets[c].balance >= 0

(* A sell of more than the wallet holds was refused, and the only stored   *)
(* wallet still holds 1, less than the largest amount asked.               *)
C1_Witness ==
    /\ last.op = "sell_currency"
    /\ last.exc = "ValueError"
    /\ \E i \in DOMAIN portfolios :
          /\ DOMAIN portfolios[i].wallets = {"EUR"}
          /\ portfolios[i].wallets["EUR"].balance = 1

(* C2: a sell on an existing wallet with amount > balance fails with       *)
(* InsufficientFundsError, and the balance of the wallet, in memory and    *)
(* persisted, is the same afterwards.                                      *)
C2_OversellRaisesInsufficientFunds ==
    (/\ last.op = "sell_currency"
     /\ last.before >= 0
     /\ last.amount > last.before)
    => /\ last.exc = "InsufficientFundsError"
       /\ last.balance = last.before
       /\ StoredBalance(portfolios, last.user_id, get_currency(last.currency_code).code)
             = last.before

C4_MutationAlwaysPersisted ==
    (/\ last.op \in {"buy_currency", "sell_currency"}
     /\ last.mutated)
    => /\ last.exc = "none"
       /\ last.saved
       /\ StoredBalance(portfolios, last.user_id, get_currency(last.currency_code).code)
             = last.balance

(* The stored portfolio of the user. *)
PortfolioOf(user_id) == get_user_portfolio(user_id, portfolios).portfolio

(* The wallets of portfolio p that have no resolvable rate to base. *)
Unresolvable(p, base_currency) ==
    {c \in DOMAIN p.wallets :
        /\ c # base_currency
        /\ get_exchange_rate(c, base_currency, TRUE, rates, now).exc
              = "ExchangeRateNotFoundError"}

(* C5: valuing a portfolio in which a wallet's currency has no resolvable  *)
(* rate to the base currency does not abort: the unresolvable wallet is    *)
(* reported as N/A and every wallet gets its row, both in show-portfolio   *)
(* and in the total value.                                                 *)
C5_ValuationToleratesMissingRate ==
    /\ (/\ last.op = "cmd_show_portfolio"
         /\ current_user # NoUser
         /\ Unresolvable(PortfolioOf(current_user.user_id), Upper(last.base)) # {})
        => /\ last.out = "table"
           /\ last.rows = DOMAIN PortfolioOf(current_user.user_id).wallets
           /\ last.na = Unresolvable(PortfolioOf(current_user.user_id), Upper(last.base))
    /\ (/\ last.op = "reduce_portfolio_value"
         /\ Unresolvable(PortfolioOf(last.user_id), last.base) # {})
        => /\ last.exc = "none"
           /\ last.rows = DOMAIN PortfolioOf(last.user_id).wallets

---------------------------------------------------------------------------
(* Properties of the rate resolver, checked under SpecRate.                *)

(* The entry is at least TTL old by its parsable timestamp. *)
StaleAt(e) ==
    /\ e.updated_at.kind = "naive"
    /\ now - e.updated_at.t >= rates_ttl_seconds

RefreshFails(key) ==
    update_exchange_rate_from_api(key[1], key[2], rates, now).exc # "none"

(* The direct block is passed: no direct entry, or an empty one. *)
NoDirect(key) == key \notin DOMAIN rates.pairs \/ rates.pairs[key] = EmptyEntry

(* C6: when the cache holds for the requested pair an entry, direct or     *)
(* inverse, that is older than the TTL and holds a rate (non-zero for an   *)
(* inverse entry), and the external refresh fails, get_exchange_rate       *)
(* returns the stored rate (1/rate for an inverse entry) with the entry's  *)
(* stored timestamp and leaves the cache file unchanged.                   *)
C6_StaleServedWhenRefreshFails ==
    \A a \in RateArgs :
        LET direct == <<a[1], a[2]>>
            reverse == <<a[2], a[1]>>
            r == get_exchange_rate(a[1], a[2], TRUE, rates, now)
        IN  /\ (/\ direct \in DOMAIN rates.pairs
                /\ StaleAt(rates.pairs[direct])
                /\ RefreshFails(direct)
                /\ rates.pairs[direct].rate.has)
               => /\ r.exc = "none"
                  /\ r.rate = rates.pairs[direct].rate
                  /\ r.ts = rates.pairs[direct].updated_at
                  /\ r.rates = rates
            /\ (/\ NoDirect(direct)
                /\ reverse \in DOMAIN rates.pairs
                /\ StaleAt(rates.pairs[reverse])
                /\ RefreshFails(reverse)
                /\ rates.pairs[reverse].rate.has
                /\ rates.pairs[reverse].rate.n # 0)
               => /\ r.exc = "none"
                  /\ r.rate = Some(RatDiv(One, ValueOf(rates.pairs[reverse].rate)))
                  /\ r.ts = rates.pairs[reverse].updated_at
                  /\ r.rates = rates

(* The rate of USD to ETH was served from the stale inverse entry ETH_USD  *)
(* of rate 2 after its refresh failed.                                     *)
C6_Witness ==
    /\ last.op = "get_exchange_rate"
    /\ last.exc = "none"
    /\ last.via = "stale"
    /\ last.from_currency = "USD"
    /\ last.to_currency = "ETH"
    /\ <<"ETH", "USD">> \in DOMAIN rates.pairs
    /\ StaleAt(rates.pairs[<<"ETH", "USD">>])
    /\ rates.pairs[<<"ETH", "USD">>].rate = Some(Rat(2, 1))

(* The key of the entry the resolver consults for the pair: the direct one *)
(* unless the direct block is passed, then the inverse one.                *)
ConsultedKeys(from_currency, to_currency) ==
    IF ~NoDirect(<<from_currency, to_currency>>)
    THEN {<<from_currency, to_currency>>}
    ELSE {<<to_currency, from_currency>>} \cap DOMAIN rates.pairs

(* C7: with use_cache true and a parsable stored timestamp, the entry is   *)
(* fresh exactly when now - updated_at < TTL (3600 s): a fresh entry is    *)
(* served with no external call and no cache write; an entry of age equal  *)
(* to or above the TTL triggers exactly one refresh attempt.               *)
C7_FreshExactlyWithinTTL ==
    \A a \in RateArgs :
        \A k \in ConsultedKeys(a[1], a[2]) :
            LET e == rates.pairs[k]
                r == get_exchange_rate(a[1], a[2], TRUE, rates, now)
            IN  e.updated_at.kind = "naive"
                => /\ (now - e.updated_at.t < rates_ttl_seconds)
                      => /\ r.api = 0
                         /\ r.writes = 0
                         /\ r.rates = rates
                         /\ r.exc = "none" => (r.via = "fresh" /\ r.ts = e.updated_at)
                   /\ (now - e.updated_at.t >= rates_ttl_seconds)
                      => /\ r.api = 1
                         /\ r.exc = "none" => r.via \in {"refresh", "stale"}

(* An entry of age exactly TTL was asked for and refreshed. *)
C7_Witness ==
    /\ last.op = "get_exchange_rate"
    /\ last.use_cache
    /\ last.via = "refresh"
    /\ last.api = 1
    /\ <<last.from_currency, last.to_currency>> \in DOMAIN rates.pairs
    /\ rates.pairs[<<last.from_currency, last.to_currency>>].updated_at
          = NaiveTs(now - rates_ttl_seconds)

(* C8: after get_exchange_rate obtained a rate through a successful        *)
(* refresh or a successful fetch, an immediately following call for the    *)
(* same pair is a fresh cache hit with the new rate and timestamp, without *)
(* an external call and without a cache write.                             *)
C8_RefreshedRateIsReadBack ==
    (/\ last.op = "get_exchange_rate"
     /\ last.via \in {"refresh", "fetch"})
    => LET next == get_exchange_rate(last.from_currency, last.to_currency, TRUE,
                                     rates, now)
       IN  /\ next.exc = "none"
           /\ next.via = "fresh"
           /\ next.rate = last.rate
           /\ next.ts = last.ts
           /\ next.api = 0
           /\ next.writes = 0

(* C9: a cache entry written by the refresh pipeline, whose updated_at is  *)
(* a UTC timestamp with the suffix Z, is subject to the TTL check: once    *)
(* its age is at least TTL, get_exchange_rate with use_cache true attempts *)
(* a refresh of the pair.                                                  *)
C9_PipelineEntriesExpire ==
    (/\ last.op = "get_exchange_rate"
     /\ last.use_cache)
    => \A k \in ConsultedKeys(last.from_currency, last.to_currency) :
          (/\ rates.pairs[k].updated_at.kind = "utcZ"
           /\ now - rates.pairs[k].updated_at.t >= rates_ttl_seconds)
          => last.api = 1

(* C10: for every registered currency code X and either value of           *)
(* use_cache, get_exchange_rate(X, X) returns (1.0, None) without reading  *)
(* the rate cache, calling the external source or writing anything.        *)
C10_IdentityRate ==
    \A x \in CURRENCY_REGISTRY, uc \in BOOLEAN :
        LET r == get_exchange_rate(x, x, uc, rates, now)
        IN  /\ r.exc = "none"
            /\ r.rate = Some(One)
            /\ r.ts = NoTs
            /\ r.reads = 0
            /\ r.api = 0
            /\ r.writes = 0
            /\ r.rates = rates

(* The rate of USD to USD was asked while the cache holds entries. *)
C10_Witness ==
    /\ last.op = "get_exchange_rate"
    /\ last.from_currency = "USD"
    /\ last.to_currency = "USD"
    /\ last.exc = "none"
    /\ last.via = "identity"
    /\ last.reads = 0
    /\ DOMAIN rates.pairs # {}

(* C11: when the cache holds only the pair B_A, fresh and with a non-zero  *)
(* rate r, and not A_B, get_exchange_rate(A, B) returns 1/r with the       *)
(* entry's timestamp and stores no A_B entry, and the rates of A to B and  *)
(* of B to A multiply to 1.                                                *)
C11_InverseFromSingleEntry ==
    \A a \in RateArgs :
        LET direct == <<a[1], a[2]>>
            reverse == <<a[2], a[1]>>
            ab == get_exchange_rate(a[1], a[2], TRUE, rates, now)
            ba == get_exchange_rate(a[2], a[1], TRUE, rates, now)
        IN  (/\ direct \notin DOMAIN rates.pairs
             /\ direct \notin DOMAIN rates.top
             /\ reverse \in DOMAIN rates.pairs
             /\ rates.pairs[reverse].updated_at.kind = "naive"
             /\ now - rates.pairs[reverse].updated_at.t < rates_ttl_seconds
             /\ rates.pairs[reverse].rate.has
             /\ rates.pairs[reverse].rate.n # 0)
            => /\ ab.exc = "none"
               /\ ab.rate = Some(RatDiv(One, ValueOf(rates.pairs[reverse].rate)))
               /\ ab.ts = rates.pairs[reverse].updated_at
               /\ ab.rates = rates
               /\ ba.exc = "none"
               /\ ba.rate = rates.pairs[reverse].rate
               /\ RatMul(ValueOf(ab.rate), ValueOf(ba.rate)) = One

(* The rate of USD to ETH was served as 1/2 from the fresh entry ETH_USD   *)
(* of rate 2, and the file holds no USD_ETH entry.                         *)
C11_Witness ==
    /\ last.op = "get_exchange_rate"
    /\ last.from_currency = "USD"
    /\ last.to_currency = "ETH"
    /\ last.via = "fresh"
    /\ last.rate = Some(Rat(1, 2))
    /\ DOMAIN rates.pairs = {<<"ETH", "USD">>}
    /\ DOMAIN rates.top = {}

(* C12: get_exchange_rate normalises both codes (strip, upper case) before *)
(* the identity test and before building the cache key: the result for     *)
(* codes that differ from registered ones by case or surrounding blanks    *)
(* equals the result for the normalised codes.                             *)
C12_CodesNormalised ==
    last.op = "get_exchange_rate"
    => LET normal == get_exchange_rate(StripUpper(last.from_currency),
                                       StripUpper(last.to_currency),
                                       last.use_cache, rates, now)
       IN  /\ last.exc = normal.exc
           /\ last.rate = normal.rate
           /\ last.via = normal.via

(* The entry consulted for the pair holds a rate the code can return: a    *)
(* rate, and a non-zero one when the entry is the reverse pair's.          *)
UsableEntries(from_currency, to_currency) ==
    \A k \in ConsultedKeys(from_currency, to_currency) :
        /\ rates.pairs[k].rate.has
        /\ k = <<to_currency, from_currency>> => rates.pairs[k].rate.n # 0

---------------------------------------------------------------------------
(* Accounts and the session. *)

(* C14: register_user raises ValidationError when the password has fewer   *)
(* than 4 characters or when a stored user has exactly the given username, *)
(* and then leaves the users store and the portfolios store unchanged.     *)
C14_RegisterRejects ==
    \A u \in UserNames, p \in UserPasswords :
        LET r == register_user(u, p, users, portfolios)
        IN  (Len(p) < 4 \/ \E i \in DOMAIN users : users[i].username = u)
            => /\ r.exc = "ValidationError"
               /\ r.users = users
               /\ r.portfolios = portfolios

C14_Witness ==
    /\ last.op = "register_user"
    /\ last.exc = "ValidationError"
    /\ Len(last.password) >= 4
    /\ \E i \in DOMAIN users : users[i].username = last.username

(* C15: after any sequence of register calls with non-empty usernames,     *)
(* usernames differing only by surrounding blanks included, no two stored  *)
(* user records have the same username.                                    *)
C15_UsernamesUnique ==
    \A i, j \in DOMAIN users : i # j => users[i].username # users[j].username

(* C16: a successful registration gets id 1 when the users store is empty  *)
(* and max(existing ids) + 1 otherwise; the stored ids are pairwise        *)
(* distinct and strictly increasing in registration order.                 *)
C16_IdsIncrease ==
    /\ \A i, j \in DOMAIN users : i < j => users[i].user_id < users[j].user_id
    /\ users # <<>> => users[1].user_id = 1
    /\ \A u \in UserNames, p \in UserPasswords :
           LET r == register_user(u, p, users, portfolios)
           IN  r.exc = "none"
               => /\ r.user.user_id = r.users[Len(r.users)].user_id
                  /\ \A i \in DOMAIN users : users[i].user_id < r.user.user_id
                  /\ IF users = <<>>
                     THEN r.user.user_id = 1
                     ELSE \E i \in DOMAIN users :
                              r.user.user_id = users[i].user_id + 1

C16_Witness ==
    /\ last.op = "register_user"
    /\ last.exc = "none"
    /\ last.user_id = 2
    /\ Len(users) = 2

(* C17: login_user raises UserNotFoundError when no stored user has the    *)
(* username, AuthenticationError when the user exists (the first stored    *)
(* record with that username) and the password does not verify, and        *)
(* otherwise makes that user the current user; a failed login leaves the   *)
(* current user as it was.                                                 *)
C17_LoginOutcomes ==
    /\ \A u \in UserNames, p \in LoginPasswords :
           LET r == login_user(u, p, users, current_user)
               named == {i \in DOMAIN users : users[i].username = u}
           IN  /\ named = {} => r.exc = "UserNotFoundError"
               /\ named # {}
                  => LET i == CHOOSE k \in named : \A j \in named : k <= j
                     IN  /\ users[i].password # p => r.exc = "AuthenticationError"
                         /\ users[i].password = p
                            => /\ r.exc = "none"
                               /\ r.current_user.user_id = users[i].user_id
                               /\ r.current_user.username = u
               /\ r.exc # "none" => r.current_user = current_user
    /\ last.op = "login_user"
       => IF last.exc = "none"
          THEN /\ current_user.username = last.username
               /\ \E i \in DOMAIN users :
                      /\ users[i].user_id = current_user.user_id
                      /\ users[i].username = last.username
                      /\ users[i].password = last.password
          ELSE last.exc \in {"UserNotFoundError", "AuthenticationError"}

C17_Witness ==
    /\ last.op = "login_user"
    /\ last.exc = "none"
    /\ current_user.username = "alice"
    /\ Len(users) = 2

(* C18: while no login has succeeded (there is no current user), the buy,  *)
(* sell and show-portfolio commands return the login-required message and  *)
(* change neither the portfolios store, the users store nor the rate       *)
(* cache.                                                                  *)
C18_CommandsNeedLogin ==
    [][(current_user = NoUser
        /\ last'.op \in {"cmd_buy", "cmd_sell", "cmd_show_portfolio"})
       => /\ last'.out = "login_required"
          /\ UNCHANGED <<users, portfolios, rates>>]_vars

C18_Witness ==
    /\ last.op = "cmd_buy"
    /\ last.out = "login_required"
    /\ last.amount > 0
    /\ current_user = NoUser
    /\ users # <<>>

---------------------------------------------------------------------------
(* Trading: the failures that precede the mutation. *)

(* C19: sell_currency with a positive amount and a registered code for     *)
(* which the user's portfolio has no wallet raises WalletNotFoundError,    *)
(* and afterwards the portfolio still has no wallet for that code; no      *)
(* stored balance and no rate changes.                                     *)
C19_SellNeedsWallet ==
    /\ \A i \in DOMAIN users, c \in TradeCodes, a \in Amounts :
           LET user_id == users[i].user_id
               r == sell_currency(user_id, c, a, portfolios, rates, now)
           IN  (/\ a > 0
                /\ get_currency(c).exc = "none"
                /\ StoredBalance(portfolios, user_id, get_currency(c).code) = -1)
               => /\ r.exc = "WalletNotFoundError"
                  /\ \A j \in DOMAIN users, d \in TradeCodes :
                         StoredBalance(r.portfolios, users[j].user_id, d)
                             = StoredBalance(portfolios, users[j].user_id, d)
                  /\ r.rates = rates
    /\ (/\ last.op = "sell_currency"
        /\ last.amount > 0
        /\ get_currency(last.currency_code).exc = "none"
        /\ last.before = -1)
       => /\ last.exc = "WalletNotFoundError"
          /\ StoredBalance(portfolios, last.user_id,
                           get_currency(last.currency_code).code) = -1

C19_Witness ==
    /\ last.op = "sell_currency"
    /\ last.exc = "WalletNotFoundError"
    /\ last.amount > 0
    /\ last.before = -1
    /\ StoredBalance(portfolios, last.user_id, last.currency_code) = -1

(* C20: buy_currency and sell_currency raise ValidationError when          *)
(* amount <= 0 and CurrencyNotFoundError when the code is not registered,  *)
(* before the portfolio is loaded or changed: the portfolios store (also   *)
(* for a user that has no stored portfolio yet) and the rate cache are     *)
(* unchanged.                                                              *)
C20_ValidationBeforeMutation ==
    \A user_id \in 1 .. (Len(users) + 1), c \in TradeCodes, a \in Amounts :
        LET b == buy_currency(user_id, c, a, portfolios, rates, now)
            s == sell_currency(user_id, c, a, portfolios, rates, now)
        IN  /\ a <= 0
               => /\ b.exc = "ValidationError" /\ s.exc = "ValidationError"
                  /\ b.portfolios = portfolios /\ s.portfolios = portfolios
                  /\ b.rates = rates /\ s.rates = rates
            /\ (a > 0 /\ c # "" /\ StripUpper(c) \notin CURRENCY_REGISTRY)
               => /\ b.exc = "CurrencyNotFoundError"
                  /\ s.exc = "CurrencyNotFoundError"
                  /\ b.portfolios = portfolios /\ s.portfolios = portfolios
                  /\ b.rates = rates /\ s.rates = rates

C20_Witness ==
    /\ last.op = "buy_currency"
    /\ last.currency_code = "XYZ"
    /\ last.amount > 0
    /\ last.exc = "CurrencyNotFoundError"
    /\ ~last.mutated
    /\ \E i \in DOMAIN portfolios : DOMAIN portfolios[i].wallets # {}

---------------------------------------------------------------------------
(* The refresh pipeline. *)

(* C21: run_update over all providers, when one provider fails and the     *)
(* other succeeds with any mapping (an empty one included), does not       *)
(* raise: it returns a result with a non-empty list of errors.             *)
C21_PartialFailureReturns ==
    (/\ last.op = "run_update"
     /\ last.source = "all"
     /\ last.errors = 1)
    => last.exc = "none"

(* C22: run_update raises only when every selected provider failed; when   *)
(* at least one selected provider returned without failing it returns a    *)
(* result with the count of updated rates and the list of errors.          *)
C22_RaisesOnlyWhenAllFailed ==
    last.op = "run_update"
    => LET selected == IF last.source = "all" THEN 2 ELSE 1
       IN  /\ last.exc # "none" => last.errors = selected
           /\ last.errors < selected
              => /\ last.exc = "none"
                 /\ last.updated >= 0

(* C23: run_update merges the fetched rates into the existing cache: an    *)
(* entry for a pair that no selected provider returned in this run is      *)
(* still present afterwards with its rate and timestamp unchanged (an      *)
(* entry the run wrote carries the run's refresh timestamp).               *)
C23_UpdateMergesIntoCache ==
    [][(last'.op = "run_update" /\ last'.exc = "none")
       => \A k \in DOMAIN rates.pairs :
              /\ k \in DOMAIN rates'.pairs
              /\ \/ rates'.pairs[k] = rates.pairs[k]
                 \/ /\ last'.updated > 0
                    /\ rates'.pairs[k].updated_at = rates'.last_refresh]_vars

(* C24: after a successful run_update, for every pair returned by some     *)
(* provider the snapshot holds the rate and the source of the last         *)
(* provider queried that returned it (ExchangeRate-API is queried after    *)
(* CoinGecko), every such entry's updated_at equals the snapshot's         *)
(* last_refresh, and the reported count is the number of distinct pairs    *)
(* written.                                                                *)
C24_LastProviderWins ==
    \A s \in Sources, cg \in PipeCoinGecko, er \in PipeExchangeRate :
        LET r == run_update(s, cg, er, rates, history, now)
            first == ClientRates(s \in {"all", "coingecko"}, cg)
            second == ClientRates(s \in {"all", "exchangerate"}, er)
            pairs == DOMAIN first \cup DOMAIN second
        IN  r.exc = "none"
            => /\ r.updated = Cardinality(pairs)
               /\ pairs # {}
                  => /\ DOMAIN r.rates.pairs = pairs
                     /\ \A k \in pairs :
                            /\ r.rates.pairs[k].updated_at = r.rates.last_refresh
                            /\ IF k \in DOMAIN second
                               THEN /\ r.rates.pairs[k].rate = Some(second[k])
                                    /\ r.rates.pairs[k].source = "ExchangeRate-API"
                               ELSE /\ r.rates.pairs[k].rate = Some(first[k])
                                    /\ r.rates.pairs[k].source = "CoinGecko"

C24_Witness ==
    /\ last.op = "run_update"
    /\ last.exc = "none"
    /\ last.source = "all"
    /\ last.errors = 0
    /\ last.updated = 2
    /\ rates.pairs[<<"ETH", "USD">>].source = "ExchangeRate-API"
    /\ rates.pairs[<<"ETH", "USD">>].rate = Some(Rat(3, 1))
    /\ rates.pairs[<<"ETH", "USD">>].updated_at = rates.last_refresh

(* C25: the rate history is append-only: a successful run_update appends   *)
(* exactly one record per updated pair, and every record the history held  *)
(* before the call is still there, unmodified, after it, whatever the      *)
(* history file was before.                                                *)
C25_HistoryAppendOnly ==
    [][(last'.op = "run_update" /\ last'.exc = "none")
       => /\ Len(history'.records) = Len(history.records) + last'.updated
          /\ \A i \in DOMAIN history.records :
                 /\ i \in DOMAIN history'.records
                 /\ history'.records[i] = history.records[i]]_vars

---------------------------------------------------------------------------
(* Serialisation of portfolios. *)

(* C26: for every portfolio reachable through the operations,              *)
(* Portfolio.from_dict(Portfolio.to_dict(p)) has the same owner id and     *)
(* exactly the same set of (currency code, balance) pairs as p.  The       *)
(* portfolios are the Portfolio objects the operations hold in the current *)
(* state: each stored portfolio as loaded, and as it is after a wallet was *)
(* added or its balance changed, before it is saved.                       *)
C26_PortfolioRoundTrip ==
    LET WalletPairs(p) == {<<c, p.wallets[c]>> : c \in DOMAIN p.wallets}
    IN  \A p \in {from_dict(portfolios[i]) : i \in DOMAIN portfolios}
               \cup {Portfolio(portfolios[i].user_id,
                               Put(from_dict(portfolios[i]).wallets, c, b))
                       : i \in DOMAIN portfolios,
                         c \in {get_currency(x).code
                                  : x \in {y \in TradeCodes :
                                             get_currency(y).exc = "none"}},
                         b \in 0 .. MaxBalance} :
            /\ \A c \in DOMAIN p.wallets : p.wallets[c] >= 0
            /\ from_dict(to_dict(p)).user_id = p.user_id
            /\ WalletPairs(from_dict(to_dict(p))) = WalletPairs(p)
            /\ \A c \in DOMAIN p.wallets :
                   to_dict(p).wallets[c] = [balance |-> p.wallets[c]]

C26_Witness ==
    /\ last.op = "sell_currency"
    /\ last.exc = "none"
    /\ \E i \in DOMAIN portfolios :
           /\ Cardinality(DOMAIN portfolios[i].wallets) = 2
           /\ \E c \in DOMAIN portfolios[i].wallets : portfolios[i].wallets[c].balance = 0
           /\ \E c \in DOMAIN portfolios[i].wallets : portfolios[i].wallets[c].balance > 0

---------------------------------------------------------------------------
(* The command line. *)

(* C27: the get-rate command with --from A --to B, for registered codes A  *)
(* and B whose rate is resolvable, outputs the rate resolved for A to B    *)
(* and not an error string.                                                *)
C27_GetRateShowsRate ==
    (/\ last.op = "main_cli"
     /\ last.line.command = "get-rate"
     /\ DOMAIN last.line.opts = {"--from", "--to"}
     /\ get_currency(last.line.opts["--from"]).exc = "none"
     /\ get_currency(last.line.opts["--to"]).exc = "none"
     /\ get_exchange_rate(StripUpper(last.line.opts["--from"]),
                          StripUpper(last.line.opts["--to"]), TRUE, rates,
                          now).exc = "none")
    => /\ last.out = "rate"
       /\ last.exc = "none"

(* C28: every command line other than exit and quit (an unknown command,   *)
(* malformed or missing arguments, a command whose operation raises) makes *)
(* parse_command return a string and never raise; the loop of main_cli     *)
(* keeps reading and is left only on exit, quit, end of input or           *)
(* interrupt; unknown commands and argument errors leave the session and   *)
(* all stores unchanged.                                                   *)
C28_CommandLoopSurvivesErrors ==
    /\ \A line \in CliLines, cg \in CoinGeckoOutcomes, er \in ExchangeRateOutcomes :
           LET st == [users |-> users, portfolios |-> portfolios, rates |-> rates,
                      history |-> history, current_user |-> current_user]
               r == parse_command(line, st, cg, er, now)
           IN  /\ r.raised = "none"
               /\ r.out \in {"unknown_command", "args_error"} => r.st = st
               /\ (line.kind = "words" /\ line.command \notin Commands \cup {"exit", "quit"})
                  => r.out = "unknown_command"
               /\ (/\ line.kind = "words"
                   /\ line.command \in Commands
                   /\ \/ ~(DOMAIN line.opts \subseteq DOMAIN ParserDests(line.command))
                      \/ ~(RequiredOptions(line.command) \subseteq DOMAIN line.opts))
                  => r.out = "args_error"
               /\ line.kind = "unbalanced" => (r.out = "error" /\ r.st = st)
    /\ last.op = "main_cli"
       => /\ last.raised = "none"
          /\ running = (last.line \notin ExitLines)
    /\ ~running
       => \/ last.op = "main_cli_end" /\ last.exc \in {"EOFError", "KeyboardInterrupt"}
          \/ last.op = "main_cli" /\ last.line \in ExitLines

C28_Witness ==
    /\ running
    /\ last.op = "main_cli"
    /\ last.line.command = "sell"
    /\ last.out = "error"
    /\ last.exc = "WalletNotFoundError"
    /\ current_user # NoUser

---------------------------------------------------------------------------
(* Processes sharing the data directory. *)

(* C29: two processes that each run buy_currency for the same user with    *)
(* their load, modify and save steps interleaved can end with a persisted  *)
(* portfolio that holds only one of the two deposits.  save_portfolio      *)
(* replaces the user's whole record by the saver's object: after a save    *)
(* the stored record is exactly what the saving process held, and when     *)
(* both processes read the same balance of the same wallet, the stored     *)
(* balance is that balance plus one deposit only.                          *)
C29_LostUpdate ==
    /\ last.op = "buy_save"
       => from_dict(portfolios[IndexOf(portfolios, procs[last.p].user_id)])
              = procs[last.p].portfolio
    /\ \A p, q \in Procs :
           (/\ DOMAIN procs = Procs
            /\ \A o \in Procs : procs[o].pc = "done" /\ procs[o].exc = "none"
            /\ p # q
            /\ procs[p].code = procs[q].code
            /\ procs[p].old_balance = procs[q].old_balance)
           => /\ StoredBalance(portfolios, procs[p].user_id, procs[p].code)
                     \in {procs[p].old_balance + procs[p].amount,
                          procs[q].old_balance + procs[q].amount}
              /\ StoredBalance(portfolios, procs[p].user_id, procs[p].code)
                     < procs[p].old_balance + procs[p].amount + procs[q].amount

C29_Witness ==
    /\ DOMAIN procs = Procs
    /\ \A p \in Procs : procs[p].pc = "done" /\ procs[p].exc = "none"
    /\ procs[1].code = "EUR" /\ procs[2].code = "EUR"
    /\ procs[1].amount = 1 /\ procs[2].amount = 1
    /\ procs[1].old_balance = procs[2].old_balance
    /\ StoredBalance(portfolios, 1, "EUR") = procs[1].old_balance + 1

---------------------------------------------------------------------------
(* The session. *)

(* C30: there is one current-user slot.  A successful login replaces the   *)
(* current user by the user that logged in, nothing else changes it, and   *)
(* buy, sell and show-portfolio act on the portfolio of the current user   *)
(* (the user of the most recent successful login) only: no other user's    *)
(* portfolio changes, a completed buy or sell of a code changes that       *)
(* user's wallet by the amount, and the table shown lists that user's      *)
(* wallets.                                                                *)
C30_SingleSession ==
    [][/\ (last'.op = "login_user" /\ last'.exc = "none")
          => /\ current_user'.username = last'.username
             /\ \E i \in DOMAIN users :
                    /\ users[i].user_id = current_user'.user_id
                    /\ users[i].username = last'.username
       /\ ~(last'.op = "login_user" /\ last'.exc = "none")
          => current_user' = current_user
       /\ last'.op \in {"cmd_buy", "cmd_sell", "cmd_show_portfolio"}
          => /\ \A i \in DOMAIN portfolios :
                    /\ i \in DOMAIN portfolios'
                    /\ portfolios[i].user_id # current_user.user_id
                       => portfolios'[i] = portfolios[i]
             /\ \A i \in DOMAIN portfolios' :
                    i \notin DOMAIN portfolios
                    => portfolios'[i].user_id = current_user.user_id
       /\ (last'.op \in {"cmd_buy", "cmd_sell"} /\ last'.out = "done")
          => StoredBalance(portfolios', current_user.user_id,
                           StripUpper(last'.currency))
                 = (IF StoredBalance(portfolios, current_user.user_id,
                                     StripUpper(last'.currency)) = -1
                    THEN 0
                    ELSE StoredBalance(portfolios, current_user.user_id,
                                       StripUpper(last'.currency)))
                   + (IF last'.op = "cmd_buy" THEN last'.amount ELSE -last'.amount)
       /\ (last'.op = "cmd_show_portfolio" /\ last'.out = "table")
          => last'.rows
                 = DOMAIN portfolios[IndexOf(portfolios, current_user.user_id)].wallets
      ]_vars

C30_Witness ==
    /\ last.op = "cmd_buy"
    /\ last.out = "done"
    /\ current_user.user_id = 2
    /\ StoredBalance(portfolios, 1, "ETH") = 1
    /\ StoredBalance(portfolios, 2, "ETH") = 1

---------------------------------------------------------------------------
(* The wallet. *)

(* C31: Wallet.deposit and Wallet.withdraw called with amount <= 0 fail    *)
(* with ValidationError, the validation error of the domain hierarchy, and *)
(* leave the balance unchanged.                                            *)
C31_WalletRejectsWithValidationError ==
    (last.op \in {"deposit", "withdraw"} /\ last.amount <= 0)
    => /\ last.exc = "ValidationError"
       /\ procs[last.code] = last.balance

---------------------------------------------------------------------------
(* The ledger of one process. *)

(* C32: in a single process the persisted balance of each wallet of a user *)
(* is the sum of the amounts of the successful buys minus the sum of the   *)
(* amounts of the successful sells of that currency.  The stores start     *)
(* without portfolios, and every step keeps the sum: a successful buy adds *)
(* its amount to the persisted balance of the traded wallet, a successful  *)
(* sell takes its amount from it, and no other step and no failed trade    *)
(* changes a persisted balance (a wallet that is not there counts as 0).   *)
(* A successful buy returns new_balance = old_balance + amount and a       *)
(* successful sell new_balance = old_balance - amount, old_balance being   *)
(* the persisted balance before and new_balance the one after.             *)
C32_BalanceIsNetOfTrades ==
    [][LET Held(pfs, u, c) ==
               IF StoredBalance(pfs, u, c) = -1 THEN 0 ELSE StoredBalance(pfs, u, c)
           done == last'.op \in {"buy_currency", "sell_currency"} /\ last'.exc = "none"
           net == IF last'.op = "buy_currency" THEN last'.amount ELSE -last'.amount
       IN  /\ \A i \in DOMAIN portfolios :
                  \A c \in DOMAIN portfolios[i].wallets :
                      StoredBalance(portfolios', portfolios[i].user_id, c) # -1
           /\ \A i \in DOMAIN portfolios' :
                  \A c \in DOMAIN portfolios'[i].wallets :
                      Held(portfolios', portfolios'[i].user_id, c)
                          = Held(portfolios, portfolios'[i].user_id, c)
                            + (IF /\ done
                                  /\ last'.user_id = portfolios'[i].user_id
                                  /\ last'.currency = c
                               THEN net ELSE 0)
           /\ done
              => LET r == IF last'.op = "buy_currency"
                          THEN buy_currency(last'.user_id, last'.currency_code,
                                            last'.amount, portfolios, rates, now)
                          ELSE sell_currency(last'.user_id, last'.currency_code,
                                             last'.amount, portfolios, rates, now)
                 IN  /\ r.exc = "none"
                     /\ r.amount = last'.amount
                     /\ r.old_balance = Held(portfolios, last'.user_id, r.currency)
                     /\ r.new_balance = r.old_balance + net
                     /\ r.new_balance = StoredBalance(portfolios', last'.user_id,
                                                      r.currency)]_vars

C32_Witness ==
    /\ last.op = "sell_currency"
    /\ last.exc = "none"
    /\ last.currency = "EUR"
    /\ last.before = 2
    /\ last.amount = 1
    /\ StoredBalance(portfolios, last.user_id, "EUR") = 1
    /\ StoredBalance(portfolios, last.user_id, "ETH") = 1

---------------------------------------------------------------------------
(* The trading commands. *)

C34_TradeTouchesOneWallet ==
    [][last'.op \in {"buy_currency", "sell_currency"}
       => LET code == get_currency(last'.currency_code).code
          IN  /\ users' = users
              /\ \A i \in DOMAIN portfolios :
                     /\ i \in DOMAIN portfolios'
                     /\ portfolios'[i].user_id = portfolios[i].user_id
                     /\ portfolios[i].user_id # last'.user_id
                        => portfolios'[i] = portfolios[i]
                     /\ \A c \in DOMAIN portfolios[i].wallets \ {code} :
                            /\ c \in DOMAIN portfolios'[i].wallets
                            /\ portfolios'[i].wallets[c] = portfolios[i].wallets[c]
                     /\ DOMAIN portfolios'[i].wallets \ DOMAIN portfolios[i].wallets
                            \subseteq {code}
              /\ \A i \in DOMAIN portfolios' \ DOMAIN portfolios :
                     /\ portfolios'[i].user_id = last'.user_id
                     /\ DOMAIN portfolios'[i].wallets \subseteq {code}]_vars

C34_Witness ==
    /\ last.op = "buy_currency"
    /\ last.exc = "none"
    /\ last.user_id = 2
    /\ last.currency = "ETH"
    /\ last.before = 1
    /\ Len(portfolios) = 2
    /\ portfolios[1].user_id = 1
    /\ portfolios[1].wallets = ("EUR" :> [balance |-> 1]) @@ ("ETH" :> [balance |-> 0])
    /\ portfolios[2].wallets = ("ETH" :> [balance |-> 2])

---------------------------------------------------------------------------
(* The rate resolver: use_cache, unreadable timestamps, the static table.  *)

(* C35: with use_cache false, a cached entry for the pair (the direct one, *)
(* or the inverse one when the direct block is passed) that holds a rate   *)
(* (non-zero for an inverse entry) is returned as stored, whatever its     *)
(* age: the stored rate (1/rate for an inverse entry) with the stored      *)
(* timestamp, no freshness check, no external call and no cache write.     *)
C35_NoCacheCheckWithoutUseCache ==
    \A a \in RateArgs :
        \A k \in ConsultedKeys(a[1], a[2]) :
            LET e == rates.pairs[k]
                r == get_exchange_rate(a[1], a[2], FALSE, rates, now)
            IN  UsableEntries(a[1], a[2])
                => /\ r.exc = "none"
                   /\ r.via = "as_is"
                   /\ r.rate = IF k = a THEN e.rate
                               ELSE Some(RatDiv(One, ValueOf(e.rate)))
                   /\ r.ts = e.updated_at
                   /\ r.api = 0
                   /\ r.writes = 0
                   /\ r.rates = rates

(* The rate of USD to ETH was asked for without the cache check and served *)
(* from the inverse entry, which is older than the TTL.                    *)
C35_Witness ==
    /\ last.op = "get_exchange_rate"
    /\ ~last.use_cache
    /\ last.exc = "none"
    /\ last.via = "as_is"
    /\ last.from_currency = "USD"
    /\ last.to_currency = "ETH"
    /\ <<"ETH", "USD">> \in DOMAIN rates.pairs
    /\ StaleAt(rates.pairs[<<"ETH", "USD">>])

(* C36: a cached entry whose stored timestamp is missing or cannot be      *)
(* parsed, and that holds a rate (non-zero for an inverse entry), is       *)
(* returned as it is: the stored rate (1/rate for an inverse entry) with   *)
(* the stored timestamp value, without a refresh attempt and without       *)
(* failing, with use_cache true as with use_cache false.                   *)
C36_UnreadableTimestampServedAsIs ==
    \A a \in RateArgs, uc \in BOOLEAN :
        \A k \in ConsultedKeys(a[1], a[2]) :
            LET e == rates.pairs[k]
                r == get_exchange_rate(a[1], a[2], uc, rates, now)
            IN  (UsableEntries(a[1], a[2]) /\ e.updated_at \in {NoTs, GarbageTs})
                => /\ r.exc = "none"
                   /\ r.via = "as_is"
                   /\ r.rate = IF k = a THEN e.rate
                               ELSE Some(RatDiv(One, ValueOf(e.rate)))
                   /\ r.ts = e.updated_at
                   /\ r.api = 0
                   /\ r.writes = 0
                   /\ r.rates = rates

C36_Witness ==
    /\ last.op = "get_exchange_rate"
    /\ last.use_cache
    /\ last.exc = "none"
    /\ last.via = "as_is"
    /\ last.ts = GarbageTs
    /\ last.from_currency = "USD"
    /\ last.to_currency = "ETH"
    /\ last.rate = Some(Rat(1, 2))

(* C37: the static fallback of get_exchange_rate never produces a rate.    *)
(* Whenever the fetch for a pair cached in neither direction fails, one of *)
(* the codes is missing from the static table, so the lookup after it      *)
(* fails too: the pair resolves exactly when both codes are in the static  *)
(* table, through the fetch, which also writes the cache file, and the     *)
(* call raises ExchangeRateNotFoundError otherwise.                        *)
C37_StaticFallbackNeverUsed ==
    \A a \in RateArgs, uc \in BOOLEAN :
        LET r == get_exchange_rate(a[1], a[2], uc, rates, now)
            static == a[1] \in DOMAIN EXCHANGE_RATES /\ a[2] \in DOMAIN EXCHANGE_RATES
        IN  /\ r.via # "fallback"
            /\ (/\ get_currency(a[1]).exc = "none"
                /\ get_currency(a[2]).exc = "none"
                /\ a[1] # a[2]
                /\ NoDirect(a)
                /\ <<a[2], a[1]>> \notin DOMAIN rates.pairs)
               => /\ RefreshFails(a) => ~static
                  /\ r.api = 1
                  /\ static
                     => /\ r.exc = "none"
                        /\ r.via = "fetch"
                        /\ r.rate = Some(RatDiv(EXCHANGE_RATES[a[1]],
                                                EXCHANGE_RATES[a[2]]))
                        /\ r.writes = 1
                        /\ a \in DOMAIN r.rates.top
                        /\ r.rates.top[a].rate = r.rate
                  /\ ~static
                     => /\ r.exc = "ExchangeRateNotFoundError"
                        /\ r.rates = rates

C37_Witness ==
    /\ last.op = "get_exchange_rate"
    /\ last.exc = "none"
    /\ last.via = "fetch"
    /\ last.from_currency = "USD"
    /\ last.to_currency = "EUR"
    /\ last.writes = 1
    /\ DOMAIN rates.pairs = {}
    /\ <<"USD", "EUR">> \in DOMAIN rates.top

---------------------------------------------------------------------------
(* The session slot and the portfolios store. *)

(* C38: a failed login (UserNotFoundError or AuthenticationError) leaves   *)
(* the current-user slot unchanged; no operation clears the slot, so once  *)
(* a login has succeeded the current user is never absent again; and the   *)
(* current user is always a user present in the users store.               *)
C38_SessionNeverCleared ==
    [][/\ (last'.op = "login_user" /\ last'.exc # "none")
          => /\ last'.exc \in {"UserNotFoundError", "AuthenticationError"}
             /\ current_user' = current_user
       /\ current_user # NoUser => current_user' # NoUser
       /\ current_user' # NoUser
          => \E i \in DOMAIN users' :
                 /\ users'[i].user_id = current_user'.user_id
                 /\ Strip(users'[i].username) = current_user'.username]_vars

C38_Witness ==
    /\ last.op = "login_user"
    /\ last.exc = "AuthenticationError"
    /\ last.username = "bob"
    /\ current_user.username = "alice"
    /\ Len(users) = 2

(* C39: after any sequence of register, login, buy, sell and               *)
(* show-portfolio in a single process, the portfolios store holds exactly  *)
(* one record for every registered user id, never two records with the     *)
(* same user id, and no record for an id that is not a registered user.    *)
(* A user whose record is absent gets exactly one on the first access      *)
(* (get_user_portfolio, then save_portfolio), and the records of the       *)
(* others are not multiplied by it.                                        *)
C39_OnePortfolioPerUser ==
    LET Count(pfs, u) == Cardinality({i \in DOMAIN pfs : pfs[i].user_id = u})
        ids == {users[i].user_id : i \in DOMAIN users}
    IN  /\ \A u \in ids : Count(portfolios, u) = 1
        /\ \A i \in DOMAIN portfolios : portfolios[i].user_id \in ids
        /\ \A u \in ids :
               LET Other(p) == p.user_id # u
                   g == get_user_portfolio(u, SelectSeq(portfolios, Other))
                   h == get_user_portfolio(u, portfolios)
               IN  \A v \in ids :
                       /\ Count(g.portfolios, v) = 1
                       /\ Count(save_portfolio(g.portfolio, g.portfolios), v) = 1
                       /\ Count(h.portfolios, v) = 1
                       /\ Count(save_portfolio(h.portfolio, h.portfolios), v) = 1

C39_Witness ==
    /\ last.op = "cmd_show_portfolio"
    /\ last.out = "table"
    /\ current_user.user_id = 2
    /\ Len(users) = 2
    /\ Len(portfolios) = 2
    /\ StoredBalance(portfolios, 1, "ETH") = 1
    /\ StoredBalance(portfolios, 2, "ETH") = 0

====
